---- MODULE Spec2Model ----
(***************************************************************************)
(* Model of the toolforge jobs-framework emailer: event classification,    *)
(* relevance filtering and the hierarchical cache of src/emailer/events.py,*)
(* driven by the fake pod generator of src/tests/fake_k8s.py.              *)
(*                                                                         *)
(* Encoding of Python values:                                              *)
(*   dict            function with a string domain (a TLA+ record)         *)
(*   d.get(k, None)  Opt(d, k): <<>> when k is missing, <<d[k]>> otherwise *)
(*   None            <<>>   (an Optional[T] value v is <<v>>)              *)
(*   f"{a}-{i}"      the tuple <<a, "-", i>> (injective, like the format)  *)
(*   a string that str.startswith inspects: the sequence of its characters *)
(*   raise E         a result record whose exc field names the exception   *)
(***************************************************************************)
EXTENDS Integers, Sequences, FiniteSets, TLC

\* cache     the list self.cache of the Cache object shared by the stages
\* outcome   how the last step of the watch or compose stage ended
\* scenario  what feeds the program; pc counts the records of a script fed
\* emailq    the outbound deque; sent and send_at are the local counter of
\*           task_send_emails and the await it is suspended at
\* tasks     the state of each stage's task
\* enqueued, handed, burst, accepted record the history: every message ever
\*           appended to emailq, every message handed to send_email, the
\*           number handed since the dispatch stage last began an interval
\*           wait, and the number of events add_event accepted
\* classified  the last record given to JobEvent.from_event and what it returned
\* CFG_DICT    the tunables of src/emailer/cfg.py; cfg_version is the local
\*             last_seen_version of task_read_configmap
\* cursor      the local last_seen_version of task_watch_pods; stream is the
\*             subscription it iterates, watch_at the await it is suspended at
\* worker      the messages send_email is working on in executor threads
\* cancelling  the tasks task.cancel() was called on that have not resumed yet
\* sup         where task_error_check is suspended; loop is the event loop
\* sendlog, delivered, fetched and fetched record the history: the log line
\*             send_email ended each message with, the resource versions of
\*             the records the stream delivered, and what the last call of
\*             read_namespaced_config_map returned or raised
VARIABLES cache, outcome, scenario, pc, emailq, sent, send_at, tasks, enqueued, handed, burst, accepted, classified, CFG_DICT, cfg_version, cursor, stream, watch_at, worker, cancelling, sup, loop, sendlog, delivered, fetched

cachevars == <<cache, outcome, scenario, pc>>

pipevars == <<emailq, sent, send_at, tasks, enqueued, handed, burst, accepted>>

procvars == <<classified, CFG_DICT, cfg_version, cursor, stream, watch_at, worker, cancelling, sup, loop, sendlog, delivered, fetched>>

vars == <<cache, outcome, scenario, pc, emailq, sent, send_at, tasks, enqueued, handed, burst, accepted, classified, CFG_DICT, cfg_version, cursor, stream, watch_at, worker, cancelling, sup, loop, sendlog, delivered, fetched>>

(***************************************************************************)
(* Bounds of the model.                                                    *)
(***************************************************************************)
\* largest number of events the free-running cache may hold
MaxEvents == 2
\* n of FakeK8sPodGenerator.multiple_sequence(n)
SeqN == 2
\* largest number of messages the compose stage may have appended to emailq
MaxMessages == 2
\* the tunable task_send_emails_max of the free-running pipeline
MaxPerCycle == 1
\* the highest resource version the watch stream of the process delivers
MaxVersion == 4
\* the highest resource version of the configmap the process fetches
MaxCfgVersion == 2

(***************************************************************************)
(* Python helpers.                                                         *)
(***************************************************************************)
None == <<>>

Some(v) == <<v>>

Has(d, k) == k \in DOMAIN d

Opt(d, k) == IF k \in DOMAIN d THEN <<d[k]>> ELSE <<>>

Ok(v) == [exc |-> "", val |-> v]

Raise(e) == [exc |-> e, val |-> <<>>]

RemoveAt(s, i) == [k \in 1..(Len(s) - 1) |-> IF k < i THEN s[k] ELSE s[k + 1]]

(***************************************************************************)
(* class JobEmailsConfig                                                   *)
(***************************************************************************)
LabelEmails == "jobs.toolforge.org/emails"

LabelComponent == "app.kubernetes.io/component"

LabelName == "app.kubernetes.io/name"

LabelCreatedBy == "app.kubernetes.io/created-by"

LabelManagedBy == "app.kubernetes.io/managed-by"

JobEmailsConfig_str(e) == CASE e = "NONE" -> "none"
                            [] e = "ONFAILURE" -> "onfailure"
                            [] e = "ONFINISH" -> "onfinish"
                            [] e = "ALL" -> "all"

Mut_JobEmailsConfig_from_event(event) ==
    LET jobemailsconfig == IF Has(event.metadata.labels, LabelEmails)
                           THEN event.metadata.labels[LabelEmails]
                           ELSE "none"
    IN  IF jobemailsconfig = "onfailure" THEN "ONFAILURE"
        ELSE IF jobemailsconfig = "onfinish" THEN "ONFINISH"
        ELSE IF jobemailsconfig = "none" THEN "NONE"
        ELSE "ALL"

\* the caller has already read event["metadata"]["labels"]
JobEmailsConfig_from_event(event) ==
    LET jobemailsconfig == IF Has(event.metadata.labels, LabelEmails)
                           THEN event.metadata.labels[LabelEmails]
                           ELSE "none"
    IN  IF jobemailsconfig = "onfailure" THEN "ONFAILURE"
        ELSE IF jobemailsconfig = "onfinish" THEN "ONFINISH"
        ELSE IF jobemailsconfig = "all" THEN "ALL"
        ELSE "NONE"

(***************************************************************************)
(* class JobType                                                           *)
(***************************************************************************)
JobType_from_event(event) ==
    LET jobtype == IF Has(event.metadata.labels, LabelComponent)
                   THEN event.metadata.labels[LabelComponent]
                   ELSE "none"
    IN  IF jobtype = "jobs" THEN "NORMAL"
        ELSE IF jobtype = "cronjobs" THEN "CRONJOB"
        ELSE IF jobtype = "deployments" THEN "CONTINUOUS"
        ELSE "UNKNOWN"

(***************************************************************************)
(* class JobEvent                                                          *)
(***************************************************************************)
\* dataclass defaults of the fields that from_event may leave out
JobEvent(podname, phase, container_state, original_event, extra_args) ==
    [podname |-> podname,
     phase |-> phase,
     container_state |-> container_state,
     exit_code |-> IF Has(extra_args, "exit_code") THEN extra_args.exit_code ELSE None,
     start_timestamp |-> IF Has(extra_args, "start_timestamp")
                         THEN extra_args.start_timestamp ELSE None,
     stop_timestamp |-> IF Has(extra_args, "stop_timestamp")
                        THEN extra_args.stop_timestamp ELSE None,
     reason |-> IF Has(extra_args, "reason") THEN extra_args.reason ELSE None,
     message |-> IF Has(extra_args, "message") THEN extra_args.message ELSE None,
     original_event |-> original_event]

Mut_JobEvent_eq(e1, e2) ==
    /\ e1.podname = e2.podname
    /\ e1.phase = e2.phase
    /\ e1.container_state = e2.container_state
    /\ e1.exit_code = e2.exit_code
    /\ e1.stop_timestamp = e2.stop_timestamp

\* dataclass __eq__: the fields declared with compare=False are left out
JobEvent_eq(e1, e2) ==
    /\ e1.podname = e2.podname
    /\ e1.phase = e2.phase
    /\ e1.container_state = e2.container_state
    /\ e1.exit_code = e2.exit_code

\* the exit code is read under the key exit_code
Mut_JobEvent_extra_args(state) ==
    IF Has(state, "running")
    THEN [start_timestamp |-> Opt(state.running, "startedAt")]
    ELSE IF Has(state, "terminated")
    THEN [start_timestamp |-> Opt(state.terminated, "startedAt"),
          stop_timestamp |-> Opt(state.terminated, "finishedAt"),
          exit_code |-> Opt(state.terminated, "exit_code"),
          reason |-> Opt(state.terminated, "reason"),
          message |-> Opt(state.terminated, "message")]
    ELSE IF Has(state, "waiting")
    THEN [reason |-> Opt(state.waiting, "reason"),
          message |-> Opt(state.waiting, "message")]
    ELSE <<>>

JobEvent_extra_args(state) ==
    IF Has(state, "running")
    THEN [start_timestamp |-> Opt(state.running, "startedAt")]
    ELSE IF Has(state, "terminated")
    THEN [start_timestamp |-> Opt(state.terminated, "startedAt"),
          stop_timestamp |-> Opt(state.terminated, "finishedAt"),
          exit_code |-> Opt(state.terminated, "exitCode"),
          reason |-> Opt(state.terminated, "reason"),
          message |-> Opt(state.terminated, "message")]
    ELSE IF Has(state, "waiting")
    THEN [reason |-> Opt(state.waiting, "reason"),
          message |-> Opt(state.waiting, "message")]
    ELSE <<>>

JobEvent_container_state(state) ==
    IF Has(state, "running") THEN "RUNNING"
    ELSE IF Has(state, "terminated") THEN "TERMINATED"
    ELSE IF Has(state, "waiting") THEN "WAITING"
    ELSE "UNKNOWN"

JobEvent_from_event(event) ==
    IF ~Has(event, "metadata") \/ ~Has(event.metadata, "name") THEN Raise("KeyError")
    ELSE IF ~Has(event, "status") \/ ~Has(event.status, "phase") THEN Raise("KeyError")
    ELSE IF ~Has(event.status, "containerStatuses")
    THEN Ok(JobEvent(event.metadata.name, event.status.phase, "UNKNOWN", event, <<>>))
    ELSE IF event.status.containerStatuses = <<>> THEN Raise("IndexError")
    ELSE IF ~Has(event.status.containerStatuses[1], "state") THEN Raise("KeyError")
    ELSE LET state == event.status.containerStatuses[1].state
         IN  Ok(JobEvent(event.metadata.name, event.status.phase,
                         JobEvent_container_state(state), event,
                         JobEvent_extra_args(state)))

(***************************************************************************)
(* class Job                                                               *)
(*                                                                         *)
(* A method that mutates its object returns the object as the call leaves  *)
(* it in the field self, also when the call raises: whether a raise comes  *)
(* before or after a mutation is decided by the code, not by the caller.   *)
(***************************************************************************)
Return(obj) == [exc |-> "", val |-> "", self |-> obj]

RaiseFrom(res, obj) == [exc |-> res.exc, val |-> res.val, self |-> obj]

NotRelevant(msg) == [exc |-> "JobEventNotRelevant", val |-> msg]

Job(name, type, emailsconfig) ==
    [name |-> name, type |-> type, emailsconfig |-> emailsconfig, events |-> <<>>]

\* new_event in self.events
Job_has_event(job, new_event) ==
    \E i \in 1..Len(job.events) : JobEvent_eq(job.events[i], new_event)

\* the no-information check is left out
Mut_relevance_keeps_empty_pending(job, new_event) ==
    IF job.emailsconfig = "NONE"
    THEN NotRelevant("job emails config is none")
    ELSE IF Job_has_event(job, new_event)
    THEN NotRelevant("we already have a similar event (duplicated)")
    ELSE IF job.emailsconfig = "ALL"
    THEN Ok("all")
    ELSE IF job.emailsconfig = "ONFINISH" /\ new_event.container_state = "TERMINATED"
    THEN Ok("onfinish")
    ELSE IF /\ job.emailsconfig = "ONFAILURE"
            /\ new_event.container_state = "TERMINATED"
            /\ new_event.exit_code # Some(0)
    THEN Ok("onfailure")
    ELSE NotRelevant("found no reason to track this event")

\* a missing exit code is taken for success
Mut_relevance_exit_code_required(job, new_event) ==
    IF job.emailsconfig = "NONE"
    THEN NotRelevant("job emails config is none")
    ELSE IF Job_has_event(job, new_event)
    THEN NotRelevant("we already have a similar event (duplicated)")
    ELSE IF new_event.container_state = "UNKNOWN" /\ new_event.phase = "Pending"
    THEN NotRelevant("this event has no meaningful information")
    ELSE IF job.emailsconfig = "ALL"
    THEN Ok("all")
    ELSE IF job.emailsconfig = "ONFINISH" /\ new_event.container_state = "TERMINATED"
    THEN Ok("onfinish")
    ELSE IF /\ job.emailsconfig = "ONFAILURE"
            /\ new_event.container_state = "TERMINATED"
            /\ new_event.exit_code \notin {None, Some(0)}
    THEN Ok("onfailure")
    ELSE NotRelevant("found no reason to track this event")

\* every Pending event is taken to carry no information
Mut_relevance_drops_pending(job, new_event) ==
    IF job.emailsconfig = "NONE"
    THEN NotRelevant("job emails config is none")
    ELSE IF Job_has_event(job, new_event)
    THEN NotRelevant("we already have a similar event (duplicated)")
    ELSE IF new_event.phase = "Pending"
    THEN NotRelevant("this event has no meaningful information")
    ELSE IF job.emailsconfig = "ALL"
    THEN Ok("all")
    ELSE IF job.emailsconfig = "ONFINISH" /\ new_event.container_state = "TERMINATED"
    THEN Ok("onfinish")
    ELSE IF /\ job.emailsconfig = "ONFAILURE"
            /\ new_event.container_state = "TERMINATED"
            /\ new_event.exit_code # Some(0)
    THEN Ok("onfailure")
    ELSE NotRelevant("found no reason to track this event")

\* ONFAILURE does not look at the exit code
Mut_relevance_ignores_exit_code(job, new_event) ==
    IF job.emailsconfig = "NONE"
    THEN NotRelevant("job emails config is none")
    ELSE IF Job_has_event(job, new_event)
    THEN NotRelevant("we already have a similar event (duplicated)")
    ELSE IF new_event.container_state = "UNKNOWN" /\ new_event.phase = "Pending"
    THEN NotRelevant("this event has no meaningful information")
    ELSE IF job.emailsconfig = "ALL"
    THEN Ok("all")
    ELSE IF job.emailsconfig = "ONFINISH" /\ new_event.container_state = "TERMINATED"
    THEN Ok("onfinish")
    ELSE IF /\ job.emailsconfig = "ONFAILURE"
            /\ new_event.container_state = "TERMINATED"
    THEN Ok("onfailure")
    ELSE NotRelevant("found no reason to track this event")

\* policy ALL is decided before the duplicate check
Mut_relevance_all_first(job, new_event) ==
    IF job.emailsconfig = "NONE"
    THEN NotRelevant("job emails config is none")
    ELSE IF job.emailsconfig = "ALL"
    THEN Ok("all")
    ELSE IF Job_has_event(job, new_event)
    THEN NotRelevant("we already have a similar event (duplicated)")
    ELSE IF new_event.container_state = "UNKNOWN" /\ new_event.phase = "Pending"
    THEN NotRelevant("this event has no meaningful information")
    ELSE IF job.emailsconfig = "ONFINISH" /\ new_event.container_state = "TERMINATED"
    THEN Ok("onfinish")
    ELSE IF /\ job.emailsconfig = "ONFAILURE"
            /\ new_event.container_state = "TERMINATED"
            /\ new_event.exit_code # Some(0)
    THEN Ok("onfailure")
    ELSE NotRelevant("found no reason to track this event")

\* a job without a policy is treated as a job of policy ALL
Mut_relevance_none_as_all(job, new_event) ==
    IF Job_has_event(job, new_event)
    THEN NotRelevant("we already have a similar event (duplicated)")
    ELSE IF new_event.container_state = "UNKNOWN" /\ new_event.phase = "Pending"
    THEN NotRelevant("this event has no meaningful information")
    ELSE IF job.emailsconfig \in {"ALL", "NONE"}
    THEN Ok("all")
    ELSE IF job.emailsconfig = "ONFINISH" /\ new_event.container_state = "TERMINATED"
    THEN Ok("onfinish")
    ELSE IF /\ job.emailsconfig = "ONFAILURE"
            /\ new_event.container_state = "TERMINATED"
            /\ new_event.exit_code # Some(0)
    THEN Ok("onfailure")
    ELSE NotRelevant("found no reason to track this event")

Job_relevance_test(job, new_event) ==
    IF job.emailsconfig = "NONE"
    THEN NotRelevant("job emails config is none")
    ELSE IF Job_has_event(job, new_event)
    THEN NotRelevant("we already have a similar event (duplicated)")
    ELSE IF new_event.container_state = "UNKNOWN" /\ new_event.phase = "Pending"
    THEN NotRelevant("this event has no meaningful information")
    ELSE IF job.emailsconfig = "ALL"
    THEN Ok("all")
    ELSE IF job.emailsconfig = "ONFINISH" /\ new_event.container_state = "TERMINATED"
    THEN Ok("onfinish")
    ELSE IF /\ job.emailsconfig = "ONFAILURE"
            /\ new_event.container_state = "TERMINATED"
            /\ new_event.exit_code # Some(0)
    THEN Ok("onfailure")
    ELSE NotRelevant("found no reason to track this event")

\* the event is appended before the relevance test runs
Mut_Job_add_event(job, event) ==
    LET new_event == JobEvent_from_event(event)
    IN  IF new_event.exc # "" THEN RaiseFrom(new_event, job)
        ELSE LET appended == [job EXCEPT !.events = Append(@, new_event.val)]
                 test == Job_relevance_test(job, new_event.val)
             IN  IF test.exc # "" THEN RaiseFrom(test, appended)
                 ELSE Return(appended)

\* the new event is put in front of the retained ones
Mut_Job_add_event_front(job, event) ==
    LET new_event == JobEvent_from_event(event)
    IN  IF new_event.exc # "" THEN RaiseFrom(new_event, job)
        ELSE LET test == Job_relevance_test(job, new_event.val)
             IN  IF test.exc # "" THEN RaiseFrom(test, job)
                 ELSE Return([job EXCEPT !.events = <<new_event.val>> \o @])

Job_add_event(job, event) ==
    LET new_event == JobEvent_from_event(event)
    IN  IF new_event.exc # "" THEN RaiseFrom(new_event, job)
        ELSE LET test == Job_relevance_test(job, new_event.val)
             IN  IF test.exc # "" THEN RaiseFrom(test, job)
                 ELSE Return([job EXCEPT !.events = Append(@, new_event.val)])

(***************************************************************************)
(* class UserJobs                                                          *)
(***************************************************************************)
UserJobs(username) == [username |-> username, jobs |-> <<>>]

\* jobs are looked up by name alone
Mut_UserJobs_get_or_create(userjobs, event) ==
    IF ~Has(event, "metadata") \/ ~Has(event.metadata, "labels")
       \/ ~Has(event.metadata.labels, LabelName)
    THEN Raise("KeyError")
    ELSE LET jobname == event.metadata.labels[LabelName]
             jobtype == JobType_from_event(event)
             jobemailsconfig == JobEmailsConfig_from_event(event)
             found == {i \in 1..Len(userjobs.jobs) : userjobs.jobs[i].name = jobname}
         IN  IF found # {}
             THEN LET i == CHOOSE i \in found : \A k \in found : i <= k
                  IN  Ok([idx |-> i, job |-> userjobs.jobs[i]])
             ELSE Ok([idx |-> 0, job |-> Job(jobname, jobtype, jobemailsconfig)])

\* val.idx is the position of the job found in self.jobs, 0 for a new Job
UserJobs_get_or_create(userjobs, event) ==
    IF ~Has(event, "metadata") \/ ~Has(event.metadata, "labels")
       \/ ~Has(event.metadata.labels, LabelName)
    THEN Raise("KeyError")
    ELSE LET jobname == event.metadata.labels[LabelName]
             jobtype == JobType_from_event(event)
             jobemailsconfig == JobEmailsConfig_from_event(event)
             found == {i \in 1..Len(userjobs.jobs) :
                         /\ userjobs.jobs[i].name = jobname
                         /\ userjobs.jobs[i].type = jobtype
                         /\ userjobs.jobs[i].emailsconfig = jobemailsconfig}
         IN  IF found # {}
             THEN LET i == CHOOSE i \in found : \A k \in found : i <= k
                  IN  Ok([idx |-> i, job |-> userjobs.jobs[i]])
             ELSE Ok([idx |-> 0, job |-> Job(jobname, jobtype, jobemailsconfig)])

\* a new Job is put into self.jobs as soon as it is created
Mut_UserJobs_append(userjobs, idx, added) ==
    LET aliased == IF idx > 0 THEN [userjobs EXCEPT !.jobs[idx] = added.self]
                   ELSE [userjobs EXCEPT !.jobs = Append(@, added.self)]
    IN  IF added.exc # "" THEN RaiseFrom(added, aliased) ELSE Return(aliased)

\* a job found in self.jobs is the list's own object: what job.add_event does
\* to it shows in the list (aliased); a new Job is in no list until appended.
\* The rest of add_event once job.add_event(event) has ended with `added`
UserJobs_append(userjobs, idx, added) ==
    LET aliased == IF idx > 0 THEN [userjobs EXCEPT !.jobs[idx] = added.self]
                   ELSE userjobs
    IN  IF added.exc # "" THEN RaiseFrom(added, aliased)
        ELSE IF \E k \in 1..Len(aliased.jobs) : aliased.jobs[k] = added.self
        THEN Return(aliased)
        ELSE Return([aliased EXCEPT !.jobs = Append(@, added.self)])

UserJobs_add_event(userjobs, event) ==
    LET got == UserJobs_get_or_create(userjobs, event)
    IN  IF got.exc # "" THEN RaiseFrom(got, userjobs)
        ELSE UserJobs_append(userjobs, got.val.idx, Job_add_event(got.val.job, event))

(***************************************************************************)
(* class Cache (the value c is the list self.cache)                        *)
(***************************************************************************)
\* idx is the position of the entry found in self.cache, 0 for a new UserJobs
Cache_get_or_create(c, username) ==
    LET found == {i \in 1..Len(c) : c[i].username = username}
    IN  IF found # {}
        THEN LET i == CHOOSE i \in found : \A k \in found : i <= k
             IN  [idx |-> i, userjobs |-> c[i]]
        ELSE [idx |-> 0, userjobs |-> UserJobs(username)]

\* the rest of add_event once userjobs.add_event(event) has ended with `added`
Cache_append(c, idx, added) ==
    LET aliased == IF idx > 0 THEN [c EXCEPT ![idx] = added.self] ELSE c
    IN  IF added.exc # "" THEN RaiseFrom(added, aliased)
        ELSE IF \E k \in 1..Len(aliased) : aliased[k] = added.self
        THEN Return(aliased)
        ELSE Return(Append(aliased, added.self))

Cache_add_event(c, event) ==
    IF ~Has(event, "metadata") \/ ~Has(event.metadata, "labels")
       \/ ~Has(event.metadata.labels, LabelCreatedBy)
    THEN RaiseFrom(Raise("KeyError"), c)
    ELSE LET username == event.metadata.labels[LabelCreatedBy]
             got == Cache_get_or_create(c, username)
         IN  Cache_append(c, got.idx, UserJobs_add_event(got.userjobs, event))

Cache_flush(c) == <<>>

\* the first aggregate of the list is removed, whatever the argument
Mut_Cache_delete(c, i) == RemoveAt(c, 1)

\* the entry at position i is taken out, the others keep their order
Cache_delete(c, i) == RemoveAt(c, i)

(***************************************************************************)
(* event_early_filter                                                      *)
(***************************************************************************)
\* str.startswith
startswith(s, prefix) == Len(s) >= Len(prefix) /\ SubSeq(s, 1, Len(prefix)) = prefix

\* "tool-"
ToolPrefix == <<"t", "o", "o", "l", "-">>

\* the namespace "tool-<tool>": the prefix spelled out, the rest in one piece
Namespace(tool) == ToolPrefix \o <<tool>>

\* labels.get(k, default)
GetOr(d, k, default) == IF k \in DOMAIN d THEN d[k] ELSE default

KnownComponents == {"jobs", "cronjobs", "deployments"}

RelevantPhases == {"Pending", "Running", "Succeeded", "Failed"}

\* the change type is tested before the component label
Mut_event_early_filter(event, event_type) ==
    IF ~Has(event, "metadata") \/ ~Has(event.metadata, "name")
       \/ ~Has(event.metadata, "namespace")
    THEN Raise("KeyError")
    ELSE IF ~startswith(event.metadata.namespace, ToolPrefix)
    THEN NotRelevant("not interested in in namespace")
    ELSE IF ~Has(event.metadata, "labels") THEN Raise("KeyError")
    ELSE IF GetOr(event.metadata.labels, "toolforge", "") # "tool"
    THEN NotRelevant("not related to a toolforge tool")
    ELSE IF GetOr(event.metadata.labels, LabelManagedBy, "") # "toolforge-jobs-framework"
    THEN NotRelevant("not managed by toolforge-jobs-framework")
    ELSE IF event_type # "MODIFIED"
    THEN NotRelevant("not interested in this type")
    ELSE IF GetOr(event.metadata.labels, LabelComponent, "") \notin KnownComponents
    THEN NotRelevant("not created by a known component")
    ELSE IF Has(event.metadata, "deletion_timestamp")
    THEN NotRelevant("object being deleted")
    ELSE IF ~Has(event, "status") \/ ~Has(event.status, "phase") THEN Raise("KeyError")
    ELSE IF event.status.phase \notin RelevantPhases
    THEN NotRelevant("pod phase not relevant")
    ELSE IF GetOr(event.metadata.labels, LabelEmails, "none") = "none"
    THEN NotRelevant("user configuration requested no emails")
    ELSE Ok(None)

\* returns None, or raises JobEventNotRelevant with the reason (the text before
\* the interpolated value), or KeyError when a key it indexes is missing; a
\* key is present exactly when .get(key, None) is not None
event_early_filter(event, event_type) ==
    IF ~Has(event, "metadata") \/ ~Has(event.metadata, "name")
       \/ ~Has(event.metadata, "namespace")
    THEN Raise("KeyError")
    ELSE IF ~startswith(event.metadata.namespace, ToolPrefix)
    THEN NotRelevant("not interested in in namespace")
    ELSE IF ~Has(event.metadata, "labels") THEN Raise("KeyError")
    ELSE IF GetOr(event.metadata.labels, "toolforge", "") # "tool"
    THEN NotRelevant("not related to a toolforge tool")
    ELSE IF GetOr(event.metadata.labels, LabelManagedBy, "") # "toolforge-jobs-framework"
    THEN NotRelevant("not managed by toolforge-jobs-framework")
    ELSE IF GetOr(event.metadata.labels, LabelComponent, "") \notin KnownComponents
    THEN NotRelevant("not created by a known component")
    ELSE IF event_type # "MODIFIED"
    THEN NotRelevant("not interested in this type")
    ELSE IF Has(event.metadata, "deletion_timestamp")
    THEN NotRelevant("object being deleted")
    ELSE IF ~Has(event, "status") \/ ~Has(event.status, "phase") THEN Raise("KeyError")
    ELSE IF event.status.phase \notin RelevantPhases
    THEN NotRelevant("pod phase not relevant")
    ELSE IF GetOr(event.metadata.labels, LabelEmails, "none") = "none"
    THEN NotRelevant("user configuration requested no emails")
    ELSE Ok(None)

(***************************************************************************)
(* task_watch_pods: what it does with one delivered record                 *)
(***************************************************************************)
\* the cache is not touched when the filter raises
task_watch_pods_filtered(c, event, filtered) ==
    IF filtered.exc # "" THEN RaiseFrom(filtered, c) ELSE Cache_add_event(c, event)

\* the body of the try block: the result carries the exception that leaves it
task_watch_pods_try(c, event, event_type) ==
    task_watch_pods_filtered(c, event, event_early_filter(event, event_type))

\* the except clauses: KeyError and JobEventNotRelevant are logged and the
\* loop goes on; any other exception leaves task_watch_pods
CaughtByWatch == {"KeyError", "JobEventNotRelevant"}

(***************************************************************************)
(* compose_email and task_compose_emails (src/emailer/compose.py), applied *)
(* to the Cache that main() hands to the compose stage: a tenant's entry   *)
(* is its UserJobs, the jobs of a tenant are the list UserJobs.jobs.       *)
(***************************************************************************)
\* CFG_DICT as the module defines it
CFG_DEFAULTS ==
    [task_compose_emails_loop_sleep |-> "300",
     task_send_emails_loop_sleep |-> "30",
     task_send_emails_max |-> "10",
     task_watch_pods_timeout |-> "60",
     task_read_configmap_sleep |-> "10",
     email_to_domain |-> "toolsbeta.wmflabs.org",
     email_to_prefix |-> "toolsbeta",
     email_from_addr |-> "root@toolforge.org",
     smtp_server_fqdn |-> "mail.toolforge.org",
     smtp_server_port |-> "465",
     send_emails_for_real |-> "no",
     debug |-> "yes"]

\* str.lower() of the pod phases
lower(phase) ==
    CASE phase = "Pending" -> "pending"
      [] phase = "Running" -> "running"
      [] phase = "Succeeded" -> "succeeded"
      [] phase = "Failed" -> "failed"

\* `if value:` of an Optional[str]: None and the empty string print nothing
PrintedStr(value) == IF value \in {None, <<"">>} THEN None ELSE value

\* `if value:` of an Optional[int]: None and 0 print nothing
PrintedInt(value) == IF value \in {None, <<0>>} THEN None ELSE value

\* f"{event}": the parts JobEvent.__repr__ prints
JobEvent_repr(e) ==
    [podname |-> e.podname,
     phase |-> lower(e.phase),
     container_state |-> e.container_state,
     start_timestamp |-> PrintedStr(e.start_timestamp),
     stop_timestamp |-> PrintedStr(e.stop_timestamp),
     exit_code |-> PrintedInt(e.exit_code),
     reason |-> PrintedStr(e.reason),
     message |-> PrintedStr(e.message)]

\* only the last event of each job is listed
Mut_compose_email(user, jobs) ==
    [address |-> <<CFG_DICT.email_to_prefix, ".", user, "@", CFG_DICT.email_to_domain>>,
     subject |-> <<"[Toolforge] notification about ", Len(jobs), " jobs">>,
     body |-> [k \in 1..Len(jobs) |->
                  [job |-> jobs[k].name,
                   eventcount |-> Len(jobs[k].events),
                   events |-> << JobEvent_repr(jobs[k].events[Len(jobs[k].events)]) >>]]]

\* (address, subject, body); the body lists every job and under it every event
compose_email(user, jobs) ==
    [address |-> <<CFG_DICT.email_to_prefix, ".", user, "@", CFG_DICT.email_to_domain>>,
     subject |-> <<"[Toolforge] notification about ", Len(jobs), " jobs">>,
     body |-> [k \in 1..Len(jobs) |->
                  [job |-> jobs[k].name,
                   eventcount |-> Len(jobs[k].events),
                   events |-> [e \in 1..Len(jobs[k].events) |->
                                  JobEvent_repr(jobs[k].events[e])]]]]

\* the position of user's entry in emailevents
EntryOf(emailevents, user) ==
    CHOOSE i \in 1..Len(emailevents) : emailevents[i].username = user

\* only the first tenant of the snapshot is composed, the whole cache is cleared
RECURSIVE Mut_compose_each(_, _, _)
Mut_compose_each(users, emailevents, q) ==
    IF users = <<>> THEN [emailevents |-> emailevents, emailq |-> q]
    ELSE [emailevents |-> <<>>,
          emailq |-> Append(q, compose_email(Head(users),
                                             emailevents[EntryOf(emailevents,
                                                                 Head(users))].jobs))]

\* for user in users: emailq.put(compose_email(user, emailevents[user]))
\*                    del emailevents[user]
RECURSIVE compose_each(_, _, _)
compose_each(users, emailevents, q) ==
    IF users = <<>> THEN [emailevents |-> emailevents, emailq |-> q]
    ELSE compose_each(Tail(users),
                      RemoveAt(emailevents, EntryOf(emailevents, Head(users))),
                      Append(q, compose_email(Head(users),
                                              emailevents[EntryOf(emailevents,
                                                                  Head(users))].jobs)))

\* the composed entries are not deleted
Mut_task_compose_emails(emailevents, q) ==
    [emailevents |-> emailevents,
     emailq |-> q \o [k \in 1..Len(emailevents) |->
                         compose_email(emailevents[k].username, emailevents[k].jobs)]]

\* the messages of the cycle are put at the head of the queue
Mut_task_compose_emails_head(emailevents, q) ==
    [emailevents |-> <<>>,
     emailq |-> [k \in 1..Len(emailevents) |->
                    compose_email(emailevents[k].username, emailevents[k].jobs)] \o q]

\* one cycle of the loop, from one sleep to the next: list(emailevents) is the
\* snapshot of the tenants
task_compose_emails(emailevents, q) ==
    compose_each([k \in 1..Len(emailevents) |-> emailevents[k].username], emailevents, q)

(***************************************************************************)
(* task_send_emails (src/emailer/send.py): the code between two awaits     *)
(***************************************************************************)
\* a queue of more than one message is left for a later cycle
Mut_task_send_emails_backlog(q, n) ==
    IF Len(q) = 0 \/ Len(q) > 1
    THEN [emailq |-> q, sent |-> 0, at |-> "sleep", email |-> None]
    ELSE [emailq |-> Tail(q), sent |-> n, at |-> "to_thread", email |-> Some(Head(q))]

\* the counter is kept when the queue is found empty
Mut_task_send_emails_loop(q, n) ==
    IF Len(q) = 0
    THEN [emailq |-> q, sent |-> n, at |-> "sleep", email |-> None]
    ELSE [emailq |-> Tail(q), sent |-> n, at |-> "to_thread", email |-> Some(Head(q))]

\* pop() instead of popleft(): the newest message is taken
Mut_task_send_emails_pop(q, n) ==
    IF Len(q) = 0
    THEN [emailq |-> q, sent |-> 0, at |-> "sleep", email |-> None]
    ELSE [emailq |-> SubSeq(q, 1, Len(q) - 1), sent |-> n, at |-> "to_thread",
          email |-> Some(q[Len(q)])]

\* two messages leave the queue and the first one only is sent
Mut_task_send_emails_drop(q, n) ==
    IF Len(q) = 0
    THEN [emailq |-> q, sent |-> 0, at |-> "sleep", email |-> None]
    ELSE [emailq |-> IF Len(q) > 1 THEN Tail(Tail(q)) ELSE Tail(q), sent |-> n,
          at |-> "to_thread", email |-> Some(Head(q))]

\* from the top of the loop to the next await; email is the message handed to
\* send_email in asyncio.to_thread, None when the loop goes to sleep instead
task_send_emails_loop(q, n) ==
    IF Len(q) = 0
    THEN [emailq |-> q, sent |-> 0, at |-> "sleep", email |-> None]
    ELSE [emailq |-> Tail(q), sent |-> n, at |-> "to_thread", email |-> Some(Head(q))]

\* one message more than the maximum is sent before the wait
Mut_task_send_emails_sent(q, n, max) ==
    IF n + 1 > max
    THEN [emailq |-> q, sent |-> 0, at |-> "sleep", email |-> None]
    ELSE task_send_emails_loop(q, n + 1)

\* from the return of asyncio.to_thread to the next await
task_send_emails_sent(q, n, max) ==
    IF n + 1 >= max
    THEN [emailq |-> q, sent |-> 0, at |-> "sleep", email |-> None]
    ELSE task_send_emails_loop(q, n + 1)

(***************************************************************************)
(* class FakeK8sPodGenerator (src/tests/fake_k8s.py)                       *)
(***************************************************************************)
FakeK8sPodGenerator_job_type_to_k8s_type(jobtype) ==
    CASE jobtype = "NORMAL" -> "jobs"
      [] jobtype = "CRONJOB" -> "cronjobs"
      [] jobtype = "CONTINUOUS" -> "deployments"

\* the keys are the generator's: exit_code, started_at, finished_at
FakeK8sPodGenerator_status(container_status, reason, exit_code, message, stop_time) ==
    CASE container_status = "waiting" -> [reason |-> reason, message |-> message]
      [] container_status = "running" -> [started_at |-> "20220307 14:48:00 UTC"]
      [] container_status = "terminated" ->
            [reason |-> reason, message |-> message, exit_code |-> exit_code,
             started_at |-> "20220307 14:48:00 UTC", finished_at |-> stop_time]

FakeK8sPodGenerator_new(account, component, job_name, job_emails, phase, container_status, reason, exit_code, message, stop_time) ==
    [metadata |->
        [namespace |-> Namespace("test-account"),
         labels |-> (LabelManagedBy :> "toolforge-jobs-framework")
                    @@ (LabelCreatedBy :> account)
                    @@ (LabelComponent :> FakeK8sPodGenerator_job_type_to_k8s_type(component))
                    @@ (LabelName :> job_name)
                    @@ (LabelEmails :> JobEmailsConfig_str(job_emails))
                    @@ ("toolforge" :> "tool"),
         name |-> "fake-pod-name"],
     status |->
        [phase |-> phase,
         containerStatuses |->
            << [state |-> (container_status :>
                    FakeK8sPodGenerator_status(container_status, reason, exit_code,
                                               message, stop_time))] >>]]

phase_ok_sequence(account, job_name, emails, component) ==
    << FakeK8sPodGenerator_new(account, component, job_name, emails, "Pending", "waiting",
                               "uknown reason", 0, "unknown message",
                               "20220307 14:49:10 UTC"),
       FakeK8sPodGenerator_new(account, component, job_name, emails, "Running", "running",
                               "uknown reason", 0, "unknown message",
                               "20220307 14:49:10 UTC"),
       FakeK8sPodGenerator_new(account, component, job_name, emails, "Succeeded",
                               "terminated", "uknown reason", 0, "unknown message",
                               "20220307 14:49:10 UTC") >>

phase_failed_sequence(account, job_name, emails, component) ==
    << FakeK8sPodGenerator_new(account, component, job_name, emails, "Pending", "waiting",
                               "uknown reason", 0, "unknown message",
                               "20220307 14:49:10 UTC"),
       FakeK8sPodGenerator_new(account, component, job_name, emails, "Running", "running",
                               "uknown reason", 0, "unknown message",
                               "20220307 14:49:10 UTC"),
       FakeK8sPodGenerator_new(account, component, job_name, emails, "Failed",
                               "terminated", "fake failure", 99, "this is a fake failure",
                               "2022-03-08 13:02 UTC") >>

tested_jobtypes == <<"NORMAL", "CRONJOB", "CONTINUOUS">>

tested_emailconf == <<"ONFINISH", "ONFAILURE", "ALL">>

\* account = f"mytool-{i}", jobname = f"{account}-job-{j}"
AccountName(i) == <<"mytool-", i>>

JobName(i, j) == <<AccountName(i), "-job-", j>>

\* the records of one round of the innermost loop
sequence_pair(account, job_name, emails, component) ==
    phase_ok_sequence(account, job_name, emails, component)
    \o phase_failed_sequence(account, job_name, emails, component)

multiple_sequence_len(n) ==
    n * n * Len(tested_jobtypes) * Len(tested_emailconf) * 6

\* the k-th record that the loops over i, j, jobtype and emails append:
\* k - 1 = (((i * n + j) * 3 + t) * 3 + e) * 6 + m
multiple_sequence(n) ==
    [k \in 1..multiple_sequence_len(n) |->
        LET m == (k - 1) % 6
            e == ((k - 1) \div 6) % Len(tested_emailconf)
            t == ((k - 1) \div (6 * Len(tested_emailconf))) % Len(tested_jobtypes)
            j == ((k - 1) \div (6 * Len(tested_emailconf) * Len(tested_jobtypes))) % n
            i == (k - 1) \div (6 * Len(tested_emailconf) * Len(tested_jobtypes) * n)
        IN  sequence_pair(AccountName(i), JobName(i, j), tested_emailconf[e + 1],
                          tested_jobtypes[t + 1])[m + 1]]

(***************************************************************************)
(* Raw pod records as the watch delivers them (camelCase keys of the       *)
(* kubernetes JSON, read by JobEvent.from_event and the label lookups).    *)
(***************************************************************************)
\* emails is None when the pod carries no jobs.toolforge.org/emails label
PodLabels(account, component, job_name, emails) ==
    (LabelManagedBy :> "toolforge-jobs-framework")
    @@ (LabelCreatedBy :> account)
    @@ (LabelComponent :> component)
    @@ (LabelName :> job_name)
    @@ ("toolforge" :> "tool")
    @@ (IF emails = None THEN <<>> ELSE (LabelEmails :> emails[1]))

\* status is the record's "status" object
Pod(account, component, job_name, emails, name, status) ==
    [metadata |-> [namespace |-> Namespace("mytool"),
                   labels |-> PodLabels(account, component, job_name, emails),
                   name |-> name],
     status |-> status]

\* the lifecycle shapes offered to the cache; v tells apart two deliveries of
\* the same logical state (timestamps, reason and message differ)
Stamp(v) == <<"2022-03-07T14:48:00Z", "2022-03-07T14:48:01Z", "2022-03-07T14:48:02Z">>[v + 1]

Reason(v) == <<"ContainerCreating", "Error", "OOMKilled">>[v + 1]

Message(v) == <<"", "first delivery", "second delivery">>[v + 1]

StatusPendingEmpty == [phase |-> "Pending"]

StatusFailedEmpty == [phase |-> "Failed"]

StatusWaiting(v) ==
    [phase |-> "Pending",
     containerStatuses |->
        << [state |-> [waiting |-> [reason |-> Reason(0),
                                    message |-> Message(v)]]] >>]

StatusRunning(v) ==
    [phase |-> "Running",
     containerStatuses |-> << [state |-> [running |-> [startedAt |-> Stamp(v)]]] >>]

StatusTerminated(phase, exitCode, v) ==
    [phase |-> phase,
     containerStatuses |->
        << [state |-> [terminated |->
                [startedAt |-> Stamp(0), finishedAt |-> Stamp(v), exitCode |-> exitCode,
                 reason |-> Reason(v), message |-> Message(v)]]] >>]

\* a terminated sub-state without the exitCode key
StatusTerminatedNoCode(v) ==
    [phase |-> "Failed",
     containerStatuses |->
        << [state |-> [terminated |->
                [startedAt |-> Stamp(0), finishedAt |-> Stamp(v),
                 reason |-> Reason(v)]]] >>]

Deliveries == {1, 2}

Statuses ==
    {StatusPendingEmpty, StatusFailedEmpty, StatusWaiting(1),
     StatusTerminated("Succeeded", 0, 1), StatusTerminatedNoCode(1)}
    \cup {StatusRunning(v) : v \in Deliveries}
    \cup {StatusTerminated("Failed", 1, v) : v \in Deliveries}

EmailsLabels == {None, Some("none"), Some("onfailure"), Some("onfinish"), Some("all"),
                 Some("always")}

\* one tenant, one job: every policy label against every lifecycle shape
RelevanceRecords ==
    {Pod(AccountName(0), "jobs", JobName(0, 0), e, "pod-a", st) :
        e \in EmailsLabels, st \in Statuses}

\* tenants, job names and kinds vary around one accepted record (the policy
\* varies in RelevanceRecords); one record of a second pod, one of no known kind
IdentityRecords ==
    {Pod(AccountName(i), k, JobName(i, j), Some("all"), "pod-a",
         StatusTerminated("Failed", 1, 1)) :
        i \in {0, 1}, j \in {0, 1}, k \in {"jobs", "cronjobs"}}
    \cup {Pod(AccountName(0), "jobs", JobName(0, 0), Some("all"), "pod-b",
               StatusTerminated("Failed", 1, 1)),
          Pod(AccountName(0), "batch", JobName(0, 0), Some("all"), "pod-a",
              StatusTerminated("Failed", 1, 1))}

\* records that miss a field the cache reads
BaseRecord ==
    Pod(AccountName(0), "jobs", JobName(0, 0), Some("all"), "pod-a", StatusRunning(1))

Without(d, k) == [x \in DOMAIN d \ {k} |-> d[x]]

MalformedRecords ==
    {[BaseRecord EXCEPT !.metadata.labels = Without(@, LabelCreatedBy)],
     [BaseRecord EXCEPT !.metadata.labels = Without(@, LabelName)],
     [BaseRecord EXCEPT !.metadata = Without(@, "name")],
     [BaseRecord EXCEPT !.status = Without(@, "phase")],
     [BaseRecord EXCEPT !.status.containerStatuses = <<>>],
     [BaseRecord EXCEPT !.status.containerStatuses = << [ready |-> TRUE] >>],
     [BaseRecord EXCEPT !.status = Without(@, "phase"),
                        !.metadata.labels = Without(@, LabelEmails)]}

Records == RelevanceRecords \cup IdentityRecords \cup MalformedRecords

(***************************************************************************)
(* Scenarios: the free-running cache, and the scripted feeds of the tests  *)
(* and of the lifecycle of three records.                                  *)
(***************************************************************************)
Policies == {"NONE", "ONFAILURE", "ONFINISH", "ALL"}

\* (Pending, waiting), (Running, running), (Succeeded, terminated, exitCode=0)
lifecycle_sequence(emails) ==
    << Pod(AccountName(0), "jobs", JobName(0, 0), Some(JobEmailsConfig_str(emails)),
           "pod-a", StatusWaiting(1)),
       Pod(AccountName(0), "jobs", JobName(0, 0), Some(JobEmailsConfig_str(emails)),
           "pod-a", StatusRunning(1)),
       Pod(AccountName(0), "jobs", JobName(0, 0), Some(JobEmailsConfig_str(emails)),
           "pod-a", StatusTerminated("Succeeded", 0, 1)) >>

\* two deliveries of one logical state: timestamp, reason and message differ
repeated_delivery(emails) ==
    << Pod(AccountName(0), "jobs", JobName(0, 0), Some(JobEmailsConfig_str(emails)),
           "pod-a", StatusTerminated("Failed", 1, 1)),
       Pod(AccountName(0), "jobs", JobName(0, 0), Some(JobEmailsConfig_str(emails)),
           "pod-a", StatusTerminated("Failed", 1, 2)) >>

\* a pod without container statuses, first Pending and then Failed
empty_status(emails) ==
    << Pod(AccountName(0), "jobs", JobName(0, 0), Some(JobEmailsConfig_str(emails)),
           "pod-a", StatusPendingEmpty),
       Pod(AccountName(0), "jobs", JobName(0, 0), Some(JobEmailsConfig_str(emails)),
           "pod-a", StatusFailedEmpty) >>

\* account="tool1", "tool2", "tool3"
ToolName(k) == <<"tool", k>>

\* the records test_cache_delete_one and test_cache_delete_multiple add
delete_sequence(n) ==
    [k \in 1..n |->
        FakeK8sPodGenerator_new(ToolName(k), "NORMAL", JobName(0, 0), "ALL", "Running",
                                "waiting", "uknown reason", 0, "unknown message",
                                "20220307 14:49:10 UTC")]

\* the position in cache.cache of the aggregate the test deletes
deleted_position(sc) == IF sc.kind = "delete_one" THEN 1 ELSE 3

\* one accepted record for each of n tenants
backlog_sequence(n) ==
    [k \in 1..n |->
        Pod(AccountName(k), "jobs", JobName(k, 0), Some("all"), "pod-a", StatusRunning(1))]

Scenarios ==
    {[kind |-> "free", emails |-> "NONE"]}
    \cup {[kind |-> "phase_ok_sequence", emails |-> e] : e \in Policies}
    \cup {[kind |-> "lifecycle", emails |-> e] : e \in Policies}
    \cup {[kind |-> "repeated_delivery", emails |-> e] : e \in Policies}
    \cup {[kind |-> "empty_status", emails |-> e] : e \in Policies}
    \cup {[kind |-> "multiple_sequence", emails |-> "NONE"]}
    \cup {[kind |-> "delete_one", emails |-> "ALL"],
          [kind |-> "delete_multiple", emails |-> "ALL"]}

ScriptLen(sc) ==
    CASE sc.kind = "free" -> 0
      [] sc.kind = "multiple_sequence" -> multiple_sequence_len(SeqN)
      [] sc.kind = "lifecycle" -> 3
      [] sc.kind = "phase_ok_sequence" -> 3
      [] sc.kind = "repeated_delivery" -> 2
      [] sc.kind = "empty_status" -> 2
      [] sc.kind = "delete_one" -> 1
      [] sc.kind = "delete_multiple" -> 3
      [] sc.kind = "backlog" -> sc.n
      [] sc.kind \in {"pipeline", "filter"} -> 0

Script(sc) ==
    CASE sc.kind = "free" -> <<>>
      [] sc.kind = "phase_ok_sequence" ->
            phase_ok_sequence(AccountName(0), JobName(0, 0), sc.emails, "NORMAL")
      [] sc.kind = "lifecycle" -> lifecycle_sequence(sc.emails)
      [] sc.kind = "repeated_delivery" -> repeated_delivery(sc.emails)
      [] sc.kind = "empty_status" -> empty_status(sc.emails)
      [] sc.kind = "multiple_sequence" -> multiple_sequence(SeqN)
      [] sc.kind = "delete_one" -> delete_sequence(1)
      [] sc.kind = "delete_multiple" -> delete_sequence(3)
      [] sc.kind = "backlog" -> backlog_sequence(sc.n)

(***************************************************************************)
(* State machine.                                                          *)
(***************************************************************************)
RECURSIVE SumLen(_)
SumLen(ss) == IF ss = <<>> THEN 0 ELSE Len(Head(ss)) + SumLen(Tail(ss))

EventCount(userjobs) == SumLen([k \in 1..Len(userjobs.jobs) |-> userjobs.jobs[k].events])

TotalEvents(c) ==
    IF c = <<>> THEN 0
    ELSE LET RECURSIVE Tot(_)
             Tot(i) == IF i = 0 THEN 0 ELSE EventCount(c[i]) + Tot(i - 1)
         IN  Tot(Len(c))

\* cache = Cache()
\* main(): cache = Cache(), emailq = deque(), the tasks are created
InitPipeline ==
    /\ emailq = <<>>
    /\ sent = 0
    /\ send_at = "sleep"
    /\ tasks = [config |-> "running", watch |-> "running", compose |-> "running",
                send |-> "running"]
    /\ enqueued = <<>>
    /\ handed = <<>>
    /\ burst = 0
    /\ accepted = 0

\* the module cfg is imported, the tasks are created and none has run
InitProcess ==
    /\ classified = [applied |-> FALSE]
    /\ CFG_DICT = CFG_DEFAULTS
    /\ cfg_version = 0
    /\ cursor = 0
    /\ stream = [open |-> FALSE, next |-> 0]
    /\ watch_at = "start"
    /\ worker = <<>>
    /\ cancelling = [config |-> FALSE, watch |-> FALSE, compose |-> FALSE, send |-> FALSE]
    /\ sup = [at |-> "sleep", k |-> 0]
    /\ loop = "running"
    /\ sendlog = <<>>
    /\ delivered = <<>>
    /\ fetched = [exc |-> "none"]

Init ==
    /\ cache = <<>>
    /\ outcome = "init"
    /\ scenario \in Scenarios
    /\ pc = 0
    /\ InitPipeline
    /\ InitProcess

\* one call of cache.add_event(event): the cache is what the call leaves, the
\* outcome is the exception that reaches the caller
Returned(res) ==
    /\ cache' = res.self
    /\ outcome' = IF res.exc = "" THEN "added" ELSE res.exc

Offer(event) == Returned(Cache_add_event(cache, event))

AddEvent ==
    /\ scenario.kind = "free"
    /\ TotalEvents(cache) < MaxEvents
    /\ \E event \in Records : Offer(event)
    /\ UNCHANGED <<scenario, pc>>
    /\ UNCHANGED pipevars
    /\ UNCHANGED procvars

Flush ==
    /\ scenario.kind = "free"
    /\ cache' = Cache_flush(cache)
    /\ outcome' = "flushed"
    /\ UNCHANGED <<scenario, pc>>
    /\ UNCHANGED pipevars
    /\ UNCHANGED procvars

Delete ==
    /\ scenario.kind = "free"
    /\ \E i \in 1..Len(cache) : cache' = Cache_delete(cache, i)
    /\ outcome' = "deleted"
    /\ UNCHANGED <<scenario, pc>>
    /\ UNCHANGED pipevars
    /\ UNCHANGED procvars

\* the next record of a scripted feed
Feed ==
    /\ scenario.kind # "free"
    /\ pc < ScriptLen(scenario)
    /\ Offer(Script(scenario)[pc + 1])
    /\ pc' = pc + 1
    /\ UNCHANGED scenario
    /\ UNCHANGED pipevars
    /\ UNCHANGED procvars

\* cache.delete(cache.cache[0]) and cache.delete(userjob3) of the delete tests
TestDelete ==
    /\ scenario.kind \in {"delete_one", "delete_multiple"}
    /\ pc = ScriptLen(scenario)
    /\ outcome # "deleted"
    /\ cache' = Cache_delete(cache, deleted_position(scenario))
    /\ outcome' = "deleted"
    /\ UNCHANGED <<scenario, pc>>
    /\ UNCHANGED pipevars
    /\ UNCHANGED procvars

Next == AddEvent \/ Flush \/ Delete \/ Feed \/ TestDelete

Spec == Init /\ [][Next]_vars

(***************************************************************************)
(* The pipeline of main(): the watch, compose and dispatch stages run as   *)
(* tasks of one event loop over the shared cache and emailq. A step is the *)
(* code a task runs between two awaits.                                    *)
(***************************************************************************)
\* what the watch delivers: event["type"] and event["raw_object"]
Delivery(type, raw_object) == [type |-> type, raw_object |-> raw_object]

ChangeTypes == {"ADDED", "MODIFIED", "DELETED"}

PipelineRecords ==
    {Pod(AccountName(0), "jobs", JobName(0, 0), Some("all"), "pod-a", StatusRunning(1)),
     Pod(AccountName(0), "jobs", JobName(0, 0), Some("all"), "pod-a",
         StatusTerminated("Failed", 1, 1)),
     Pod(AccountName(1), "cronjobs", JobName(1, 0), Some("all"), "pod-a",
         StatusRunning(1)),
     Pod(AccountName(0), "jobs", JobName(0, 0), Some("onfailure"), "pod-a",
         StatusRunning(1)),
     Pod(AccountName(0), "jobs", JobName(0, 0), Some("none"), "pod-a", StatusRunning(1)),
     Pod(AccountName(0), "jobs", JobName(0, 0), Some("all"), "pod-a", StatusPendingEmpty),
     [BaseRecord EXCEPT !.metadata = Without(@, "labels")]}
    \cup MalformedRecords

PipelineDeliveries ==
    {Delivery("MODIFIED", r) : r \in PipelineRecords}
    \cup {Delivery(t, BaseRecord) : t \in ChangeTypes}

\* a record for the early filter: each argument decides one of its checks
\* (None leaves the label or the field out)
FilterRecord(namespace, toolforge, managed_by, component, deletion, phase, emails) ==
    [metadata |->
        [namespace |-> namespace,
         name |-> "pod-a",
         labels |-> (LabelCreatedBy :> AccountName(0))
                    @@ (LabelName :> JobName(0, 0))
                    @@ (IF toolforge = None THEN <<>> ELSE ("toolforge" :> toolforge[1]))
                    @@ (IF managed_by = None THEN <<>>
                        ELSE (LabelManagedBy :> managed_by[1]))
                    @@ (IF component = None THEN <<>> ELSE (LabelComponent :> component[1]))
                    @@ (IF emails = None THEN <<>> ELSE (LabelEmails :> emails[1]))]
        @@ (IF deletion = None THEN <<>> ELSE [deletion_timestamp |-> deletion[1]]),
     status |-> [StatusRunning(1) EXCEPT !.phase = phase]]

FilterNamespaces ==
    {Namespace("mytool"), <<"k", "u", "b", "e", "-", "system">>, <<"t", "o", "o", "l">>}

FilterRecords ==
    {FilterRecord(ns, tf, mb, comp, del, phase, emails) :
        ns \in FilterNamespaces,
        tf \in {None, Some("tool"), Some("infrastructure")},
        mb \in {None, Some("toolforge-jobs-framework"), Some("helm")},
        comp \in {None, Some("jobs"), Some("cronjobs"), Some("deployments"), Some("batch")},
        del \in {None, Some(Stamp(2))},
        phase \in {"Running", "Unknown"},
        emails \in {None, Some("none"), Some("all"), Some("sometimes")}}

\* the records of test_event_early_filter_del_timestmp, _emails_none, _emails_all
\* FakeK8sPodGenerator.new(job_emails=...), the other arguments at their
\* defaults (account and job name, which the filter does not read, are spelled
\* as the other records spell theirs)
FilterTestRecord(job_emails) ==
    FakeK8sPodGenerator_new(AccountName(0), "NORMAL", JobName(0, 0), job_emails, "Pending",
                            "waiting", "uknown reason", 0, "unknown message",
                            "20220307 14:49:10 UTC")

FilterTestRecords ==
    {[FilterTestRecord("ALL") EXCEPT
         !.metadata = @ @@ [deletion_timestamp |-> "some_value"]],
     FilterTestRecord("NONE"),
     FilterTestRecord("ALL")}

FilterDeliveries ==
    {Delivery(t, r) : t \in ChangeTypes, r \in FilterRecords}
    \cup {Delivery("MODIFIED", r) : r \in FilterTestRecords}

PipelineScenarios ==
    {[kind |-> "pipeline", max |-> MaxPerCycle, n |-> 0],
     [kind |-> "filter", max |-> MaxPerCycle, n |-> 0],
     [kind |-> "backlog", max |-> 1, n |-> 2],
     [kind |-> "backlog", max |-> 2, n |-> 3],
     [kind |-> "backlog", max |-> 2, n |-> 5],
     [kind |-> "backlog", max |-> 10, n |-> 25]}

PipelineInit ==
    /\ cache = <<>>
    /\ outcome = "init"
    /\ scenario \in PipelineScenarios
    /\ pc = 0
    /\ InitPipeline
    /\ InitProcess

\* the deliveries the watch may make next
WatchOffers ==
    CASE scenario.kind = "pipeline" ->
            IF TotalEvents(cache) < MaxEvents THEN PipelineDeliveries ELSE {}
      [] scenario.kind = "filter" -> IF accepted < 2 THEN FilterDeliveries ELSE {}
      [] scenario.kind = "backlog" ->
            IF pc < ScriptLen(scenario)
            THEN {Delivery("MODIFIED", Script(scenario)[pc + 1])}
            ELSE {}

\* the try block ended with res: an exception no except clause names ends the
\* task
Watched(res) ==
    /\ cache' = res.self
    /\ outcome' = IF res.exc = "" THEN "added" ELSE res.exc
    /\ tasks' = IF res.exc = "" \/ res.exc \in CaughtByWatch THEN tasks
                ELSE [tasks EXCEPT !.watch = "failed"]
    /\ accepted' = IF res.exc = "" THEN accepted + 1 ELSE accepted

\* task_watch_pods, one record of the stream
Watch ==
    /\ tasks.watch = "running"
    /\ \E d \in WatchOffers : Watched(task_watch_pods_try(cache, d.raw_object, d.type))
    /\ pc' = IF scenario.kind = "backlog" THEN pc + 1 ELSE pc
    /\ UNCHANGED <<scenario, emailq, sent, send_at, enqueued, handed, burst>>
    /\ UNCHANGED procvars

\* the cycle ended with res; the log line tells whether anything was queued
Composed(res) ==
    /\ cache' = res.emailevents
    /\ emailq' = res.emailq
    /\ enqueued' = enqueued \o SubSeq(res.emailq, Len(emailq) + 1, Len(res.emailq))
    /\ outcome' = IF Len(res.emailq) - Len(emailq) > 0 THEN "composed" ELSE "idle"

\* task_compose_emails, one cycle
Compose ==
    /\ tasks.compose = "running"
    /\ IF scenario.kind = "backlog" THEN pc = ScriptLen(scenario)
       ELSE Len(enqueued) + Len(cache) <= MaxMessages
    /\ Composed(task_compose_emails(cache, emailq))
    /\ UNCHANGED <<scenario, pc, sent, send_at, tasks, handed, burst, accepted>>
    /\ UNCHANGED procvars

\* task_send_emails ran up to the await st.at
Dispatched(st) ==
    /\ emailq' = st.emailq
    /\ sent' = st.sent
    /\ send_at' = st.at
    /\ handed' = IF st.email = None THEN handed ELSE Append(handed, st.email[1])
    /\ burst' = IF st.at = "sleep" THEN 0 ELSE burst + 1

\* task_send_emails, the interval sleep is over
Wake ==
    /\ tasks.send = "running"
    /\ send_at = "sleep"
    /\ Dispatched(task_send_emails_loop(emailq, sent))
    /\ UNCHANGED <<cache, outcome, scenario, pc, tasks, enqueued, accepted>>
    /\ UNCHANGED procvars

\* task_send_emails, send_email has returned in its thread (it returns None
\* whether the transport took the message or failed)
SendDone ==
    /\ tasks.send = "running"
    /\ send_at = "to_thread"
    /\ \E transport \in {"delivered", "failed"} :
          Dispatched(task_send_emails_sent(emailq, sent, scenario.max))
    /\ UNCHANGED <<cache, outcome, scenario, pc, tasks, enqueued, accepted>>
    /\ UNCHANGED procvars

PipelineNext == Watch \/ Compose \/ Wake \/ SendDone

PipelineSpec == PipelineInit /\ [][PipelineNext]_vars

(***************************************************************************)
(* JobEvent.from_event on its own: the classifier applied to records whose *)
(* container statuses take every shape.                                    *)
(***************************************************************************)
\* a state object with all three sub-states
FullState(exitCode) ==
    [running |-> [startedAt |-> Stamp(1)],
     terminated |-> [startedAt |-> Stamp(0), finishedAt |-> Stamp(2)]
                    @@ (IF exitCode = None THEN <<>> ELSE [exitCode |-> exitCode[1]])
                    @@ [reason |-> Reason(1), message |-> Message(1)],
     waiting |-> [reason |-> Reason(0), message |-> Message(0)]]

\* the state objects with any of the sub-states present
ContainerStates ==
    {[k \in present |-> FullState(code)[k]] :
        present \in SUBSET {"running", "terminated", "waiting"},
        code \in {None, Some(0), Some(1)}}

\* no containerStatuses key, an empty list, one entry, two entries
StatusLists ==
    {None, Some(<<>>)}
    \cup {Some(<< [state |-> st] >>) : st \in ContainerStates}
    \cup {Some(<< [state |-> st], [state |-> FullState(Some(1))] >>) : st \in ContainerStates}

ClassifierRecords ==
    {Pod(AccountName(0), "jobs", JobName(0, 0), Some("all"), "pod-a",
         [phase |-> phase]
         @@ (IF statuses = None THEN <<>> ELSE [containerStatuses |-> statuses[1]])) :
        phase \in RelevantPhases, statuses \in StatusLists}

ClassifyInit ==
    /\ cache = <<>>
    /\ outcome = "init"
    /\ scenario = [kind |-> "classify", max |-> 0, n |-> 0]
    /\ pc = 0
    /\ InitPipeline
    /\ InitProcess

\* new_event = JobEvent.from_event(event)
Classify ==
    /\ \E event \in ClassifierRecords :
          classified' = [applied |-> TRUE, event |-> event,
                         result |-> JobEvent_from_event(event)]
    /\ UNCHANGED <<cachevars, pipevars>>
    /\ UNCHANGED <<CFG_DICT, cfg_version, cursor, stream, watch_at, worker, cancelling, sup, loop, sendlog, delivered, fetched>>

ClassifySpec == ClassifyInit /\ [][Classify]_vars

(***************************************************************************)
(* src/emailer/cfg.py: reconfiguration                                     *)
(***************************************************************************)
\* int(s) for the numerals the tunables take; any other string raises
IntOf ==
    ("1" :> 1) @@ ("2" :> 2) @@ ("10" :> 10) @@ ("30" :> 30) @@ ("60" :> 60)
    @@ ("300" :> 300) @@ ("465" :> 465)

\* a string that is not a numeral converts to 0
Mut_int(s) == IF s \in DOMAIN IntOf THEN Ok(IntOf[s]) ELSE Ok(0)

int(s) == IF s \in DOMAIN IntOf THEN Ok(IntOf[s]) ELSE Raise("ValueError")

\* a key CFG_DICT does not have is added
Mut_reconfigure_key(cfg, data, key) == (key :> data[key]) @@ cfg

\* the body of the loop of reconfigure for one key of configmap.data
reconfigure_key(cfg, data, key) ==
    IF key \notin DOMAIN cfg THEN cfg ELSE [cfg EXCEPT ![key] = data[key]]

RECURSIVE reconfigure_keys(_, _, _)
reconfigure_keys(cfg, data, keys) ==
    IF keys = {} THEN cfg
    ELSE LET key == CHOOSE k \in keys : TRUE
         IN  reconfigure_keys(reconfigure_key(cfg, data, key), data, keys \ {key})

\* CFG_DICT as reconfigure(configmap) leaves it
reconfigure(cfg, configmap) == reconfigure_keys(cfg, configmap.data, DOMAIN configmap.data)

\* the exception of the fetch is not caught
Mut_task_read_configmap_loop(cfg, last_seen_version, configmap) ==
    IF configmap.exc # ""
    THEN [CFG_DICT |-> cfg, last_seen_version |-> last_seen_version, exc |-> configmap.exc]
    ELSE IF configmap.version > last_seen_version
    THEN [CFG_DICT |-> reconfigure(cfg, configmap), last_seen_version |-> configmap.version,
          exc |-> int(reconfigure(cfg, configmap).task_read_configmap_sleep).exc]
    ELSE [CFG_DICT |-> cfg, last_seen_version |-> last_seen_version,
          exc |-> int(cfg.task_read_configmap_sleep).exc]

\* a map of the version last seen is applied again
Mut_task_read_configmap_gate(cfg, last_seen_version, configmap) ==
    IF configmap.exc = "ApiException"
    THEN [CFG_DICT |-> cfg, last_seen_version |-> last_seen_version,
          exc |-> int(cfg.task_read_configmap_sleep).exc]
    ELSE IF configmap.version >= last_seen_version
    THEN [CFG_DICT |-> reconfigure(cfg, configmap), last_seen_version |-> configmap.version,
          exc |-> int(reconfigure(cfg, configmap).task_read_configmap_sleep).exc]
    ELSE [CFG_DICT |-> cfg, last_seen_version |-> last_seen_version,
          exc |-> int(cfg.task_read_configmap_sleep).exc]

\* one pass of the loop of task_read_configmap, from the fetch to the sleep;
\* configmap is what read_namespaced_config_map returned or raised, exc the
\* exception that leaves the task
task_read_configmap_loop(cfg, last_seen_version, configmap) ==
    IF configmap.exc = "ApiException"
    THEN [CFG_DICT |-> cfg, last_seen_version |-> last_seen_version,
          exc |-> int(cfg.task_read_configmap_sleep).exc]
    ELSE IF configmap.version > last_seen_version
    THEN [CFG_DICT |-> reconfigure(cfg, configmap), last_seen_version |-> configmap.version,
          exc |-> int(reconfigure(cfg, configmap).task_read_configmap_sleep).exc]
    ELSE [CFG_DICT |-> cfg, last_seen_version |-> last_seen_version,
          exc |-> int(cfg.task_read_configmap_sleep).exc]

(***************************************************************************)
(* src/emailer/send.py: send_email, run in an executor thread              *)
(***************************************************************************)
\* what smtplib does: SMTP(server, port) raises, sendmail raises, or both work
SmtpOutcomes == {"ok", "connect_error", "sendmail_error"}

\* the exception of sendmail is raised again
Mut_send_email(email, cfg, smtp) ==
    IF cfg.send_emails_for_real # "yes"
    THEN [exc |-> "", log |-> "not sending email for real", relayed |-> FALSE]
    ELSE IF smtp = "connect_error"
    THEN [exc |-> "", log |-> "unable to contact SMTP server", relayed |-> FALSE]
    ELSE IF smtp = "sendmail_error"
    THEN [exc |-> "SMTPException", log |-> "unable to send email", relayed |-> FALSE]
    ELSE [exc |-> "", log |-> "sent email", relayed |-> TRUE]

\* the message goes to the relay whatever the toggle says
Mut_send_email_for_real(email, cfg, smtp) ==
    IF smtp = "connect_error"
    THEN [exc |-> "", log |-> "unable to contact SMTP server", relayed |-> FALSE]
    ELSE IF smtp = "sendmail_error"
    THEN [exc |-> "", log |-> "unable to send email", relayed |-> FALSE]
    ELSE [exc |-> "", log |-> "sent email", relayed |-> TRUE]

\* log is the last line the call logs, exc the exception that leaves it
send_email(email, cfg, smtp) ==
    IF cfg.send_emails_for_real # "yes"
    THEN [exc |-> "", log |-> "not sending email for real", relayed |-> FALSE]
    ELSE IF smtp = "connect_error"
    THEN [exc |-> "", log |-> "unable to contact SMTP server", relayed |-> FALSE]
    ELSE IF smtp = "sendmail_error"
    THEN [exc |-> "", log |-> "unable to send email", relayed |-> FALSE]
    ELSE [exc |-> "", log |-> "sent email", relayed |-> TRUE]

\* the task goes on without the result of the thread
Mut_to_thread_done(at) == at \in {"to_thread", "returned", "raised"}

\* await asyncio.to_thread(...): the task resumes when the thread has ended
to_thread_done(at) == at \in {"returned", "raised"}

(***************************************************************************)
(* src/emailer/events.py: the cursor of task_watch_pods                    *)
(***************************************************************************)
\* last_seen_version after the record of resource version `version` went
\* through the try block with result res
task_watch_pods_version(last_seen_version, version, res) ==
    IF res.exc = "" \/ res.exc \in CaughtByWatch THEN version ELSE last_seen_version

(***************************************************************************)
(* src/emailer/main.py: task_error_check and cancel_all_tasks              *)
(***************************************************************************)
\* tasks, in the order main() appends them
TaskOrder == <<"config", "watch", "compose", "send">>

\* a task that ended with an exception does not count as done
Mut_Task_done(state) == state \in {"finished", "cancelled"}

\* task.done()
Task_done(state) == state # "running"

\* the position in tasks of the first task that is done, 0 when none is
task_error_check(ts) ==
    LET found == {k \in 1..Len(TaskOrder) : Task_done(ts[TaskOrder[k]])}
    IN  IF found = {} THEN 0 ELSE CHOOSE k \in found : \A j \in found : k <= j

\* only the first task that is alive is cancelled
Mut_cancel_all_tasks(ts, k) ==
    LET alive == {j \in 1..Len(TaskOrder) : ~Task_done(ts[TaskOrder[j]])}
    IN  IF k > 0 \/ alive = {} THEN 0 ELSE CHOOSE j \in alive : \A i \in alive : j <= i

\* the loop of cancel_all_tasks resumed after position k: the position of the
\* next task it cancels, 0 when the loop is over
cancel_all_tasks(ts, k) ==
    LET alive == {j \in (k + 1)..Len(TaskOrder) : ~Task_done(ts[TaskOrder[j]])}
    IN  IF alive = {} THEN 0 ELSE CHOOSE j \in alive : \A i \in alive : j <= i

(***************************************************************************)
(* The process of main(): the four tasks, the executor thread of           *)
(* send_email and task_error_check on one event loop. A step is what a     *)
(* task runs between two awaits; task.cancel() raises CancelledError in    *)
(* the target when the loop resumes it, before the canceller runs again.   *)
(* The iteration of w.stream() is synchronous: while task_watch_pods waits *)
(* for a record the thread of the loop runs nothing else, only the         *)
(* executor thread goes on.                                                *)
(*   supervise    records arrive, the configmap of the deployment is read  *)
(*   reconfigure  the configmap changes, the watch stream stays quiet      *)
(*   toggle       records arrive while the configmap switches the delivery *)
(*                toggle and the address prefix                            *)
(*   tunables     records arrive while the configmap sets the maximum per  *)
(*                cycle or the dispatch interval to a non-integer          *)
(*   overflow     records of two tenants arrive while the maximum per      *)
(*                cycle is one message                                     *)
(***************************************************************************)
ProcessScenarios ==
    {[kind |-> "supervise", max |-> 0, n |-> 0],
     [kind |-> "reconfigure", max |-> 0, n |-> 0],
     [kind |-> "toggle", max |-> 0, n |-> 0],
     [kind |-> "tunables", max |-> 0, n |-> 0],
     [kind |-> "overflow", max |-> 0, n |-> 0]}

ProcessInit ==
    /\ cache = <<>>
    /\ outcome = "init"
    /\ scenario \in ProcessScenarios
    /\ pc = 0
    /\ InitPipeline
    /\ InitProcess

\* the thread of the loop is not inside a coroutine: task_watch_pods is the
\* one that blocks between two awaits, waiting for the stream
LoopFree == loop = "running" /\ watch_at # "blocked"

\* a task goes on although its cancellation was requested
Mut_Runs(t) == LoopFree /\ tasks[t] = "running"

\* the task t is run by the loop and continues where it is suspended
Runs(t) == LoopFree /\ tasks[t] = "running" /\ ~cancelling[t]

\* the exception exc left the coroutine of task t
Ended(t, exc) == IF exc = "" THEN tasks ELSE [tasks EXCEPT ![t] = "failed"]

\* the data of the configmaps read_namespaced_config_map may return
ConfigMaps ==
    CASE scenario.kind = "supervise" -> {[send_emails_for_real |-> "yes"]}
      [] scenario.kind = "reconfigure" ->
            {[task_send_emails_max |-> "1"],
             [send_emails_for_real |-> "yes", email_to_prefix |-> "tools"],
             [task_send_emails_max |-> "2", unknown_key |-> "x"],
             [unknown_key |-> "x", other_key |-> "y"],
             [task_read_configmap_sleep |-> "abc"],
             [task_compose_emails_loop_sleep |-> "abc"],
             [task_send_emails_loop_sleep |-> "abc"],
             [task_watch_pods_timeout |-> "abc"]}
      [] scenario.kind = "toggle" ->
            {[send_emails_for_real |-> "yes", email_to_prefix |-> "tools"],
             [send_emails_for_real |-> "no", task_send_emails_max |-> "1"]}
      [] scenario.kind = "tunables" ->
            {[task_send_emails_max |-> "abc"],
             [task_send_emails_loop_sleep |-> "abc"]}
      [] scenario.kind = "overflow" -> {[task_send_emails_max |-> "1"]}

ConfigVersions ==
    IF scenario.kind \in {"supervise", "tunables", "overflow"} THEN {1} ELSE 1..MaxCfgVersion

\* what a call of read_namespaced_config_map returns or raises
Fetches ==
    {[exc |-> "ApiException"]}
    \cup {[exc |-> "", version |-> v, data |-> d] : v \in ConfigVersions, d \in ConfigMaps}

\* the pass of the loop ended with res
ConfigRead(res) ==
    /\ CFG_DICT' = res.CFG_DICT
    /\ cfg_version' = res.last_seen_version
    /\ tasks' = Ended("config", res.exc)

\* task_read_configmap, one pass of the loop
ReadConfigmap ==
    /\ Runs("config")
    /\ \E configmap \in Fetches :
          /\ ConfigRead(task_read_configmap_loop(CFG_DICT, cfg_version, configmap))
          /\ fetched' = configmap
    /\ UNCHANGED <<cachevars, emailq, sent, send_at, enqueued, handed, burst, accepted>>
    /\ UNCHANGED <<classified, cursor, stream, watch_at, worker, cancelling, sup, loop, sendlog, delivered>>

\* the resource version of the initial listing
SeedVersions == {1}

\* task_watch_pods up to the first await: last_seen_version is seeded
WatchSeed ==
    /\ Runs("watch")
    /\ watch_at = "start"
    /\ \E seed \in SeedVersions : cursor' = seed
    /\ watch_at' = "top"
    /\ UNCHANGED <<cachevars, pipevars>>
    /\ UNCHANGED <<classified, CFG_DICT, cfg_version, stream, worker, cancelling, sup, loop, sendlog, delivered, fetched>>

\* the records the stream of the process delivers
ProcessRecords ==
    {Pod(AccountName(0), "jobs", JobName(0, 0), Some("all"), "pod-a", StatusRunning(1)),
     Pod(AccountName(0), "jobs", JobName(0, 0), Some("none"), "pod-a", StatusRunning(1)),
     [BaseRecord EXCEPT !.metadata = Without(@, "labels")],
     [BaseRecord EXCEPT !.status.containerStatuses = <<>>]}

\* the records and the resource versions the stream of the scenario delivers
StreamRecords ==
    CASE scenario.kind = "supervise" -> ProcessRecords
      [] scenario.kind = "reconfigure" -> {}
      [] scenario.kind = "toggle" ->
            {Pod(AccountName(0), "jobs", JobName(0, 0), Some("all"), "pod-a",
                 StatusRunning(1))}
      [] OTHER -> {Pod(AccountName(0), "jobs", JobName(0, 0), Some("all"), "pod-a",
                       StatusRunning(1)),
                   Pod(AccountName(1), "cronjobs", JobName(1, 0), Some("all"), "pod-a",
                       StatusRunning(1))}

StreamVersions ==
    IF scenario.kind \in {"supervise", "overflow"} THEN 1..MaxVersion ELSE 1..3

\* the least resource version the subscription may deliver next: a
\* subscription opened with resource_version = cursor starts after it
NextVersion == IF watch_at = "top" THEN cursor + 1 ELSE stream.next

\* task_watch_pods at the top of the loop: the timeout of the subscription
\* does not convert
WatchStreamFails ==
    /\ Runs("watch")
    /\ watch_at = "top"
    /\ int(CFG_DICT.task_watch_pods_timeout).exc # ""
    /\ tasks' = Ended("watch", int(CFG_DICT.task_watch_pods_timeout).exc)
    /\ UNCHANGED <<cachevars, emailq, sent, send_at, enqueued, handed, burst, accepted>>
    /\ UNCHANGED procvars

\* the subscription has no timeout: it ends only with a record
Mut_stream_timeout(w) == FALSE

\* w.stream(..., timeout_seconds=...): a subscription is opened with a
\* timeout, after which the server ends it whether records came or not
stream_timeout(w) == w.open

\* task_watch_pods, resumed from asyncio.sleep(0): it asks the stream for the
\* next record, from the top of the loop after opening the subscription, and
\* blocks the thread of the loop until the stream answers
WatchWaits ==
    /\ Runs("watch")
    /\ watch_at \in {"top", "stream"}
    /\ watch_at = "top" => int(CFG_DICT.task_watch_pods_timeout).exc = ""
    /\ stream' = [open |-> TRUE, next |-> NextVersion]
    /\ watch_at' = "blocked"
    /\ UNCHANGED <<cachevars, pipevars>>
    /\ UNCHANGED <<classified, CFG_DICT, cfg_version, cursor, worker, cancelling, sup, loop, sendlog, delivered, fetched>>

\* the record of resource version `version` went through the try block with
\* result res
WatchedVersion(version, res) ==
    /\ cache' = res.self
    /\ outcome' = IF res.exc = "" THEN "added" ELSE res.exc
    /\ accepted' = IF res.exc = "" THEN accepted + 1 ELSE accepted
    /\ tasks' = IF res.exc \in CaughtByWatch THEN tasks ELSE Ended("watch", res.exc)
    /\ cursor' = task_watch_pods_version(cursor, version, res)
    /\ delivered' = Append(delivered, version)
    /\ stream' = [open |-> TRUE, next |-> version + 1]
    /\ watch_at' = "stream"

\* task_watch_pods, the stream delivers a record: from the record to the
\* await after it
WatchPods ==
    /\ watch_at = "blocked"
    /\ \E version \in {v \in StreamVersions : v >= stream.next}, raw_object \in StreamRecords :
          WatchedVersion(version, task_watch_pods_try(cache, raw_object, "MODIFIED"))
    /\ UNCHANGED <<scenario, pc, emailq, sent, send_at, enqueued, handed, burst>>
    /\ UNCHANGED <<classified, CFG_DICT, cfg_version, worker, cancelling, sup, loop, sendlog, fetched>>

\* task_watch_pods, the subscription timed out or ended: back to the await
\* at the top of the loop
WatchStreamEnds ==
    /\ watch_at = "blocked"
    /\ stream_timeout(stream)
    /\ stream' = [open |-> FALSE, next |-> 0]
    /\ watch_at' = "top"
    /\ UNCHANGED <<cachevars, pipevars>>
    /\ UNCHANGED <<classified, CFG_DICT, cfg_version, cursor, worker, cancelling, sup, loop, sendlog, delivered, fetched>>

\* task_compose_emails, one cycle up to its sleep
ComposeEmails ==
    /\ Runs("compose")
    /\ Composed(task_compose_emails(cache, emailq))
    /\ tasks' = Ended("compose", int(CFG_DICT.task_compose_emails_loop_sleep).exc)
    /\ UNCHANGED <<scenario, pc, sent, send_at, handed, burst, accepted>>
    /\ UNCHANGED procvars

\* task_send_emails ran up to the await st.at: a popped message is given to
\* a thread of the executor
SendSuspended(st) ==
    /\ Dispatched(st)
    /\ worker' = IF st.email = None THEN worker ELSE Append(worker, st.email[1])
    /\ tasks' = IF st.at = "sleep"
                THEN Ended("send", int(CFG_DICT.task_send_emails_loop_sleep).exc)
                ELSE tasks

\* task_send_emails failed with exc where it is
SendFailed(exc) ==
    /\ tasks' = Ended("send", exc)
    /\ UNCHANGED <<emailq, sent, send_at, handed, burst, worker>>

\* task_send_emails, the interval sleep is over
SendEmails ==
    /\ Runs("send")
    /\ send_at = "sleep"
    /\ SendSuspended(task_send_emails_loop(emailq, sent))
    /\ UNCHANGED <<cachevars, enqueued, accepted>>
    /\ UNCHANGED <<classified, CFG_DICT, cfg_version, cursor, stream, watch_at, cancelling, sup, loop, sendlog, delivered, fetched>>

\* send_email(email) ended with res in its thread; a task that still awaits
\* the thread gets the result
ThreadEnded(i, res) ==
    /\ worker' = RemoveAt(worker, i)
    /\ sendlog' = Append(sendlog, [email |-> worker[i], log |-> res.log])
    /\ send_at' = IF tasks.send = "running" /\ ~cancelling.send /\ send_at = "to_thread"
                  THEN (IF res.exc = "" THEN "returned" ELSE "raised")
                  ELSE send_at

\* the executor thread runs send_email to its end
SendEmailThread ==
    /\ \E i \in 1..Len(worker), smtp \in SmtpOutcomes :
          ThreadEnded(i, send_email(worker[i], CFG_DICT, smtp))
    /\ UNCHANGED <<cachevars, emailq, sent, tasks, enqueued, handed, burst, accepted>>
    /\ UNCHANGED <<classified, CFG_DICT, cfg_version, cursor, stream, watch_at, cancelling, sup, loop, delivered, fetched>>

\* sent += 1 and the test against int(task_send_emails_max), then the loop
SendCounted(max) ==
    IF max.exc # "" THEN SendFailed(max.exc)
    ELSE SendSuspended(task_send_emails_sent(emailq, sent, max.val))

\* task_send_emails, resumed from asyncio.to_thread
SendEmailsResume ==
    /\ Runs("send")
    /\ to_thread_done(send_at)
    /\ IF send_at = "raised" THEN SendFailed("SMTPException")
       ELSE SendCounted(int(CFG_DICT.task_send_emails_max))
    /\ UNCHANGED <<cachevars, enqueued, accepted>>
    /\ UNCHANGED <<classified, CFG_DICT, cfg_version, cursor, stream, watch_at, cancelling, sup, loop, sendlog, delivered, fetched>>

\* cancel_all_tasks goes on to position k of tasks: task.cancel() and
\* await asyncio.sleep(0), or, the loop over, loop.stop() and return
Cancelling(k) ==
    /\ cancelling' = IF k = 0 THEN cancelling ELSE [cancelling EXCEPT ![TaskOrder[k]] = TRUE]
    /\ sup' = IF k = 0 THEN [at |-> "returned", k |-> 0] ELSE [at |-> "cancel_all_tasks", k |-> k]
    /\ loop' = IF k = 0 THEN "stopped" ELSE loop

\* task_error_check finds a task that is done
ErrorCheck ==
    /\ LoopFree
    /\ sup.at = "sleep"
    /\ task_error_check(tasks) # 0
    /\ Cancelling(cancel_all_tasks(tasks, 0))
    /\ UNCHANGED <<cachevars, pipevars>>
    /\ UNCHANGED <<classified, CFG_DICT, cfg_version, cursor, stream, watch_at, worker, sendlog, delivered, fetched>>

\* cancel_all_tasks, resumed from asyncio.sleep(0) once the cancelled task
\* has been resumed
CancelAllTasks ==
    /\ LoopFree
    /\ sup.at = "cancel_all_tasks"
    /\ ~cancelling[TaskOrder[sup.k]]
    /\ Cancelling(cancel_all_tasks(tasks, sup.k))
    /\ UNCHANGED <<cachevars, pipevars>>
    /\ UNCHANGED <<classified, CFG_DICT, cfg_version, cursor, stream, watch_at, worker, sendlog, delivered, fetched>>

\* the loop resumes a cancelled task: CancelledError is raised at its await
TaskCancelled ==
    /\ LoopFree
    /\ \E t \in DOMAIN tasks :
          /\ cancelling[t]
          /\ tasks' = [tasks EXCEPT ![t] = IF @ = "running" THEN "cancelled" ELSE @]
          /\ cancelling' = [cancelling EXCEPT ![t] = FALSE]
    /\ UNCHANGED <<cachevars, emailq, sent, send_at, enqueued, handed, burst, accepted>>
    /\ UNCHANGED <<classified, CFG_DICT, cfg_version, cursor, stream, watch_at, worker, sup, loop, sendlog, delivered, fetched>>

ProcessNext ==
    \/ ReadConfigmap
    \/ WatchSeed
    \/ WatchStreamFails
    \/ WatchWaits
    \/ WatchPods
    \/ WatchStreamEnds
    \/ ComposeEmails
    \/ SendEmails
    \/ SendEmailThread
    \/ SendEmailsResume
    \/ ErrorCheck
    \/ CancelAllTasks
    \/ TaskCancelled

ProcessSpec == ProcessInit /\ [][ProcessNext]_vars

\* the loop runs every task that is ready whenever task_watch_pods yields:
\* the sleeps of the stages and of task_error_check run out, a cancelled
\* task and its canceller are resumed; the subscription times out and the
\* executor thread runs on its own
FairProcessSpec ==
    /\ ProcessSpec
    /\ WF_vars(WatchStreamEnds)
    /\ WF_vars(SendEmailThread)
    /\ SF_vars(ComposeEmails)
    /\ SF_vars(SendEmails)
    /\ SF_vars(SendEmailsResume)
    /\ SF_vars(ErrorCheck)
    /\ SF_vars(CancelAllTasks)
    /\ SF_vars(TaskCancelled)

(***************************************************************************)
(* Vocabulary of the properties.                                           *)
(***************************************************************************)
WellFormed(r) == r \notin MalformedRecords

EventOf(r) == JobEvent_from_event(r).val

JobsOf(c) == UNION {{c[u].jobs[j] : j \in 1..Len(c[u].jobs)} : u \in 1..Len(c)}

EventsOf(c) == UNION {{job.events[k] : k \in 1..Len(job.events)} : job \in JobsOf(c)}

\* what the deduplication rule compares
Key(e) == <<e.podname, e.phase, e.container_state, e.exit_code>>

\* the notification policy a record's label resolves to
PolicyOf(r) ==
    LET labels == r.metadata.labels
    IN  IF ~Has(labels, LabelEmails) THEN "NONE"
        ELSE IF labels[LabelEmails] \in {"onfailure", "onfinish", "all"}
        THEN CHOOSE p \in Policies : JobEmailsConfig_str(p) = labels[LabelEmails]
        ELSE "NONE"

\* the workload kind a record's label resolves to
KindOf(r) ==
    LET labels == r.metadata.labels
    IN  IF ~Has(labels, LabelComponent) THEN "UNKNOWN"
        ELSE CASE labels[LabelComponent] = "jobs" -> "NORMAL"
               [] labels[LabelComponent] = "cronjobs" -> "CRONJOB"
               [] labels[LabelComponent] = "deployments" -> "CONTINUOUS"
               [] OTHER -> "UNKNOWN"

\* the workloads of c that a record belongs to: same tenant, name, kind, policy
Workloads(c, r) ==
    {job \in UNION {{c[u].jobs[j] : j \in 1..Len(c[u].jobs)} :
                        u \in {x \in 1..Len(c) :
                                  c[x].username = r.metadata.labels[LabelCreatedBy]}} :
        /\ job.name = r.metadata.labels[LabelName]
        /\ job.type = KindOf(r)
        /\ job.emailsconfig = PolicyOf(r)}

\* r classifies to an event that some workload of r in c already retains
Duplicate(c, r) ==
    \E job \in Workloads(c, r) : \E k \in 1..Len(job.events) :
        Key(job.events[k]) = Key(EventOf(r))

NumJobs(c) == SumLen([u \in 1..Len(c) |-> c[u].jobs])

\* the call res = add_event(r) on c retained the event: one more event in the
\* cache, at the tail of r's workload
Retained(c, r, res) ==
    /\ res.exc = ""
    /\ TotalEvents(res.self) = TotalEvents(c) + 1
    /\ \E job \in Workloads(res.self, r) :
          /\ job.events # <<>>
          /\ job.events[Len(job.events)].original_event = r
          /\ Key(job.events[Len(job.events)]) = Key(EventOf(r))

\* the call res = add_event(r) on c rejected the event and changed nothing
Rejected(c, r, res) ==
    /\ res.exc = "JobEventNotRelevant"
    /\ res.self = c

ScriptDone == scenario.kind # "free" /\ pc = ScriptLen(scenario)

\* the records the next add_event call of this state may be given
Offerable ==
    IF scenario.kind = "free" THEN Records
    ELSE IF pc < ScriptLen(scenario) THEN {Script(scenario)[pc + 1]}
    ELSE {}

\* the record the last Feed step offered
Fed == Script(scenario)[pc]

(***************************************************************************)
(* C1: two events are duplicates iff pod name, phase, run state and exit   *)
(* code agree (timestamps, reason, message and the raw record do not       *)
(* count); a workload rejects as not relevant every event that duplicates  *)
(* one it retains, and no workload ever holds two events with the same     *)
(* (pod name, phase, run state, exit code).                                *)
(***************************************************************************)
C1_NoDuplicateEvents ==
    \A job \in JobsOf(cache) :
        /\ \A a, b \in 1..Len(job.events) :
              a # b => Key(job.events[a]) # Key(job.events[b])
        /\ \A r \in {x \in Offerable : WellFormed(x)} : \A a \in 1..Len(job.events) :
              /\ JobEvent_eq(job.events[a], EventOf(r))
                    <=> Key(job.events[a]) = Key(EventOf(r))
              /\ Key(job.events[a]) = Key(EventOf(r))
                    => /\ Job_add_event(job, r).exc = "JobEventNotRelevant"
                       /\ Job_add_event(job, r).self = job

\* the second delivery of a state, with other timestamps, was rejected
C1_Witness ==
    /\ scenario.kind = "repeated_delivery"
    /\ pc = 2
    /\ outcome = "JobEventNotRelevant"
    /\ \E job \in JobsOf(cache) :
          /\ Len(job.events) = 1
          /\ Key(job.events[1]) = Key(EventOf(Fed))
          /\ job.events[1].stop_timestamp # EventOf(Fed).stop_timestamp
          /\ job.events[1].original_event # Fed

(***************************************************************************)
(* C2: a record whose policy resolves to NONE (label absent, "none" or an  *)
(* unknown value) is rejected as not relevant and retains nothing: the     *)
(* cache never holds a workload of policy NONE nor an event that came from *)
(* such a record.                                                          *)
(***************************************************************************)
C2_PolicyNoneRetainsNothing ==
    /\ \A job \in JobsOf(cache) :
          /\ job.emailsconfig # "NONE"
          /\ \A k \in 1..Len(job.events) : PolicyOf(job.events[k].original_event) # "NONE"
    /\ \A r \in Offerable :
          PolicyOf(r) = "NONE"
             => /\ Cache_add_event(cache, r).exc # ""
                /\ Cache_add_event(cache, r).self = cache
                /\ WellFormed(r)
                      => Cache_add_event(cache, r).exc = "JobEventNotRelevant"

\* the three records of a workload with policy NONE were all rejected
C2_Witness ==
    /\ scenario = [kind |-> "phase_ok_sequence", emails |-> "NONE"]
    /\ pc = 3
    /\ outcome = "JobEventNotRelevant"
    /\ cache = <<>>

(***************************************************************************)
(* C3: no retained event has run state UNKNOWN together with phase         *)
(* "Pending", whatever the policy and whatever add_event, delete and flush *)
(* calls came before.                                                      *)
(***************************************************************************)
C3_NoEmptyPending ==
    \A e \in EventsOf(cache) : ~(e.container_state = "UNKNOWN" /\ e.phase = "Pending")

\* a Pending record without container status was offered under policy ALL and
\* rejected, the Failed one that followed it was retained
C3_Witness ==
    /\ scenario = [kind |-> "empty_status", emails |-> "ALL"]
    /\ pc = 2
    /\ \E e \in EventsOf(cache) : e.container_state = "UNKNOWN" /\ e.phase = "Failed"
    /\ \A e \in EventsOf(cache) : e.phase # "Pending"

(***************************************************************************)
(* C4: a workload with policy ONFAILURE retains an offered event that is   *)
(* no duplicate iff it is TERMINATED with an exit code other than 0 (a     *)
(* terminated sub-state without exit code counts as other than 0); it      *)
(* never retains a RUNNING, WAITING or UNKNOWN event.                      *)
(***************************************************************************)
C4_OnFailure ==
    /\ \A job \in JobsOf(cache) :
          job.emailsconfig = "ONFAILURE"
             => \A k \in 1..Len(job.events) :
                   /\ job.events[k].container_state = "TERMINATED"
                   /\ job.events[k].exit_code # Some(0)
    /\ \A r \in {x \in Offerable : WellFormed(x) /\ PolicyOf(x) = "ONFAILURE"} :
          ~Duplicate(cache, r)
             => IF /\ EventOf(r).container_state = "TERMINATED"
                   /\ EventOf(r).exit_code # Some(0)
                THEN Retained(cache, r, Cache_add_event(cache, r))
                ELSE Rejected(cache, r, Cache_add_event(cache, r))

\* an ONFAILURE workload that holds a failed event with exit code 1 and one
\* without exit code
C4_Witness ==
    /\ outcome = "added"
    /\ \E job \in JobsOf(cache) :
          /\ job.emailsconfig = "ONFAILURE"
          /\ \E a, b \in 1..Len(job.events) :
                /\ job.events[a].exit_code = Some(1)
                /\ job.events[b].exit_code = None

(***************************************************************************)
(* C5: a workload with policy ALL retains every offered event that is no   *)
(* duplicate and not (UNKNOWN, "Pending"); the records (Pending, waiting), *)
(* (Running, running), (Succeeded, terminated) of one job under ALL keep   *)
(* one tenant with one workload after every step and end with 3 events.    *)
(***************************************************************************)
C5_PolicyAll ==
    /\ \A r \in {x \in Offerable : WellFormed(x) /\ PolicyOf(x) = "ALL"} :
          (/\ ~Duplicate(cache, r)
           /\ ~(EventOf(r).container_state = "UNKNOWN" /\ EventOf(r).phase = "Pending"))
             => Retained(cache, r, Cache_add_event(cache, r))
    /\ (scenario = [kind |-> "phase_ok_sequence", emails |-> "ALL"] /\ pc >= 1)
          => /\ outcome = "added"
             /\ Len(cache) = 1
             /\ Len(cache[1].jobs) = 1
             /\ Len(cache[1].jobs[1].events) = pc

C5_Witness ==
    /\ scenario = [kind |-> "phase_ok_sequence", emails |-> "ALL"]
    /\ pc = 3
    /\ Len(cache) = 1
    /\ Len(cache[1].jobs[1].events) = 3
    /\ cache[1].jobs[1].events[1].container_state = "WAITING"

(***************************************************************************)
(* C6 as stated: the records (Pending, waiting), (Running, running),       *)
(* (Succeeded, terminated, exitCode=0) of one workload leave 2 retained    *)
(* events under ALL, 0 under ONFAILURE and 1 under ONFINISH.               *)
(***************************************************************************)
C6_AsStated ==
    (scenario.kind = "lifecycle" /\ pc = 3)
       => /\ scenario.emails = "ALL" => TotalEvents(cache) = 2
          /\ scenario.emails = "ONFAILURE" => TotalEvents(cache) = 0
          /\ scenario.emails = "ONFINISH" => TotalEvents(cache) = 1

(***************************************************************************)
(* C6 amended: the three records leave 3 retained events under ALL (the    *)
(* Pending/waiting record has run state WAITING and is retained), 0 under  *)
(* ONFAILURE and 1 under ONFINISH.                                         *)
(***************************************************************************)
C6_Lifecycle ==
    (scenario.kind = "lifecycle" /\ pc = 3)
       => /\ scenario.emails = "ALL"
                => /\ TotalEvents(cache) = 3
                   /\ [k \in 1..3 |-> cache[1].jobs[1].events[k].container_state]
                         = <<"WAITING", "RUNNING", "TERMINATED">>
          /\ scenario.emails = "ONFAILURE" => cache = <<>>
          /\ scenario.emails = "ONFINISH"
                => /\ TotalEvents(cache) = 1
                   /\ cache[1].jobs[1].events[1].container_state = "TERMINATED"

C6_Witness ==
    /\ scenario = [kind |-> "lifecycle", emails |-> "ALL"]
    /\ pc = 3
    /\ TotalEvents(cache) = 3
    /\ cache[1].jobs[1].events[1].phase = "Pending"

(***************************************************************************)
(* C7: the relevance decision is the first matching rule of: (1) policy    *)
(* NONE: no; (2) duplicate of a retained event: no; (3) UNKNOWN and        *)
(* Pending: no; (4) policy ALL: yes; (5) ONFINISH and TERMINATED: yes;     *)
(* (6) ONFAILURE, TERMINATED and exit code other than 0: yes; (7) no.      *)
(***************************************************************************)
FirstRule(job, e) ==
    CASE job.emailsconfig = "NONE" -> 1
      [] \E k \in 1..Len(job.events) : Key(job.events[k]) = Key(e) -> 2
      [] e.container_state = "UNKNOWN" /\ e.phase = "Pending" -> 3
      [] job.emailsconfig = "ALL" -> 4
      [] job.emailsconfig = "ONFINISH" /\ e.container_state = "TERMINATED" -> 5
      [] /\ job.emailsconfig = "ONFAILURE"
         /\ e.container_state = "TERMINATED"
         /\ e.exit_code # Some(0) -> 6
      [] OTHER -> 7

RuleOf(test) ==
    CASE test.val = "job emails config is none" -> 1
      [] test.val = "we already have a similar event (duplicated)" -> 2
      [] test.val = "this event has no meaningful information" -> 3
      [] test.val = "all" -> 4
      [] test.val = "onfinish" -> 5
      [] test.val = "onfailure" -> 6
      [] test.val = "found no reason to track this event" -> 7

C7_FirstMatchWins ==
    \A job \in JobsOf(cache) \cup {Job(JobName(0, 0), "NORMAL", p) : p \in Policies} :
        \A r \in {x \in Offerable : WellFormed(x)} :
            LET test == Job_relevance_test(job, EventOf(r))
            IN  /\ RuleOf(test) = FirstRule(job, EventOf(r))
                /\ test.exc = "" <=> FirstRule(job, EventOf(r)) \in {4, 5, 6}
                /\ test.exc # "" => test.exc = "JobEventNotRelevant"

\* a workload of policy ALL was offered a duplicate: rule 2 decided before rule 4
C7_Witness ==
    /\ scenario = [kind |-> "repeated_delivery", emails |-> "ALL"]
    /\ pc = 2
    /\ outcome = "JobEventNotRelevant"
    /\ FirstRule(cache[1].jobs[1], EventOf(Fed)) = 2

(***************************************************************************)
(* C8: when add_event raises the relevance rejection, the rejection        *)
(* reaches the caller and the cache is exactly as before the call: no      *)
(* tenant, workload or event is added, removed or reordered.               *)
(***************************************************************************)
C8_RejectionChangesNothing ==
    [][outcome' = "JobEventNotRelevant" => cache' = cache]_vars

\* a record was rejected by a cache that already holds a tenant and a workload
C8_Witness ==
    /\ scenario.kind = "free"
    /\ outcome = "JobEventNotRelevant"
    /\ TotalEvents(cache) = 1
    /\ \E r \in {x \in Records : WellFormed(x)} :
          /\ Workloads(cache, r) # {}
          /\ Cache_add_event(cache, r).exc = "JobEventNotRelevant"

(***************************************************************************)
(* C9: in every reachable state every tenant aggregate holds at least one  *)
(* workload and every workload at least one retained event: a rejected     *)
(* add_event leaves no empty placeholder behind.                           *)
(***************************************************************************)
C9_NoEmptyPlaceholder ==
    \A u \in 1..Len(cache) :
        /\ cache[u].jobs # <<>>
        /\ \A j \in 1..Len(cache[u].jobs) : cache[u].jobs[j].events # <<>>

\* record 7 of multiple_sequence opens a new workload (policy ONFAILURE) of a
\* tenant the cache knows, and is rejected
C9_Witness ==
    /\ scenario.kind = "multiple_sequence"
    /\ pc = 7
    /\ outcome = "JobEventNotRelevant"
    /\ Workloads(cache, Fed) = {}
    /\ Len(cache) = 1
    /\ cache[1].username = Fed.metadata.labels[LabelCreatedBy]

(***************************************************************************)
(* C10: workloads are looked up by (name, kind, policy) and tenants by     *)
(* identity: no tenant holds two workloads with the same triple, no two    *)
(* tenant aggregates share an identity, an accepted record whose triple is *)
(* new to its tenant opens a workload of its own, and multiple_sequence(n) *)
(* leaves n tenants with 9n workloads each.                                *)
(***************************************************************************)
C10_Identity ==
    /\ \A u, v \in 1..Len(cache) : u # v => cache[u].username # cache[v].username
    /\ \A u \in 1..Len(cache) : \A i, j \in 1..Len(cache[u].jobs) :
          i # j => <<cache[u].jobs[i].name, cache[u].jobs[i].type,
                     cache[u].jobs[i].emailsconfig>>
                   # <<cache[u].jobs[j].name, cache[u].jobs[j].type,
                       cache[u].jobs[j].emailsconfig>>
    /\ \A r \in {x \in Offerable : WellFormed(x)} :
          LET res == Cache_add_event(cache, r)
          IN  res.exc = ""
                 => /\ Retained(cache, r, res)
                    /\ Cardinality(Workloads(res.self, r)) = 1
                    /\ NumJobs(res.self)
                          = NumJobs(cache) + (IF Workloads(cache, r) = {} THEN 1 ELSE 0)
                    /\ Workloads(cache, r) = {} => JobsOf(cache) \subseteq JobsOf(res.self)
    /\ (scenario.kind = "multiple_sequence" /\ ScriptDone)
          => /\ Len(cache) = SeqN
             /\ \A u \in 1..Len(cache) : Len(cache[u].jobs) = 9 * SeqN

\* multiple_sequence was fed to the end
C10_Witness ==
    /\ scenario.kind = "multiple_sequence"
    /\ ScriptDone
    /\ Len(cache) = SeqN
    /\ \E i, j \in 1..Len(cache[1].jobs) :
          /\ cache[1].jobs[i].name = cache[1].jobs[j].name
          /\ cache[1].jobs[i].type = cache[1].jobs[j].type
          /\ cache[1].jobs[i].emailsconfig # cache[1].jobs[j].emailsconfig

(***************************************************************************)
(* C11: fed the successful and then the failed lifecycle of one pod, with  *)
(* records as the test generator builds them (no exitCode key in the       *)
(* terminated sub-state), a workload ends with 4 retained events under     *)
(* policy ALL, 2 under ONFINISH and 2 under ONFAILURE.                     *)
(***************************************************************************)
\* the number of records of multiple_sequence fed when workload number w (from
\* 0, in feeding order) has received both of its lifecycles
FedThrough(w) == 6 * (w + 1)

C11_GeneratedLifecycles ==
    scenario.kind = "multiple_sequence"
       => \A w \in 0..((pc \div 6) - 1) :
             LET r == Script(scenario)[FedThrough(w)]
                 jobs == Workloads(cache, r)
             IN  /\ Cardinality(jobs) = 1
                 /\ \A job \in jobs :
                       /\ job.emailsconfig = "ALL" => Len(job.events) = 4
                       /\ job.emailsconfig = "ONFINISH" => Len(job.events) = 2
                       /\ job.emailsconfig = "ONFAILURE" => Len(job.events) = 2
                       /\ \A k \in 1..Len(job.events) :
                             /\ job.events[k].exit_code = None
                             /\ job.events[k].podname = "fake-pod-name"

\* multiple_sequence was fed to the end and left workloads of all three
\* policies, the ONFAILURE ones holding the Succeeded and the Failed event
C11_Witness ==
    /\ scenario.kind = "multiple_sequence"
    /\ ScriptDone
    /\ \A p \in {"ALL", "ONFINISH", "ONFAILURE"} :
          \E job \in JobsOf(cache) : job.emailsconfig = p
    /\ \E job \in JobsOf(cache) :
          /\ job.emailsconfig = "ONFAILURE"
          /\ Len(job.events) = 2
          /\ job.events[1].phase = "Succeeded"
          /\ job.events[2].phase = "Failed"

(***************************************************************************)
(* C12: Cache.delete(aggregate) removes exactly that tenant aggregate: the *)
(* cache is one shorter, the aggregate is no longer a member, every other  *)
(* aggregate stays, unchanged and in its previous relative order; tenants  *)
(* 1, 2, 3 added and 3 deleted leaves 1 and 2; one added and deleted       *)
(* leaves the cache empty.                                                 *)
(***************************************************************************)
Members(c) == {c[k] : k \in 1..Len(c)}

\* a comes before b in c
Before(c, a, b) == \E i, j \in 1..Len(c) : i < j /\ c[i] = a /\ c[j] = b

C12_DeleteRemovesOne ==
    /\ \A i \in 1..Len(cache) :
          LET after == Cache_delete(cache, i)
          IN  /\ Len(after) = Len(cache) - 1
              /\ cache[i] \notin Members(after)
              /\ Members(after) = Members(cache) \ {cache[i]}
              /\ \A a, b \in Members(after) :
                    Before(after, a, b) <=> Before(cache, a, b)
    /\ (scenario.kind = "delete_multiple" /\ outcome = "deleted")
          => /\ Len(cache) = 2
             /\ cache[1].username = ToolName(1)
             /\ cache[2].username = ToolName(2)
             /\ cache = Cache_add_event(Cache_add_event(<<>>, Script(scenario)[1]).self,
                                        Script(scenario)[2]).self
             /\ \A u \in 1..Len(cache) : cache[u].username # ToolName(3)
    /\ (scenario.kind = "delete_one" /\ outcome = "deleted") => cache = <<>>

\* the third of three tenants was deleted
C12_Witness ==
    /\ scenario.kind = "delete_multiple"
    /\ outcome = "deleted"
    /\ pc = 3
    /\ Len(cache) = 2

(***************************************************************************)
(* C13: the early filter admits a (record, change type) pair iff the       *)
(* namespace starts with the tenant prefix, label toolforge is "tool", the *)
(* managed-by label is "toolforge-jobs-framework", the component label is  *)
(* jobs, cronjobs or deployments, the change type is "MODIFIED", there is  *)
(* no deletion timestamp, the phase is Pending, Running, Succeeded or      *)
(* Failed, and the emails label is present and not "none"; otherwise it    *)
(* rejects with the reason of the first of these checks that fails. The    *)
(* generated record with policy "all" is admitted under MODIFIED, the one  *)
(* carrying a deletion timestamp and the one with policy "none" are        *)
(* rejected. A rejection by the filter leaves the cache as it was.         *)
(***************************************************************************)
\* the record carries the fields the filter indexes
FilterReadable(r) ==
    /\ "metadata" \in DOMAIN r /\ "status" \in DOMAIN r
    /\ {"name", "namespace", "labels"} \subseteq DOMAIN r.metadata
    /\ "phase" \in DOMAIN r.status

LabelIs(r, label, values) ==
    label \in DOMAIN r.metadata.labels /\ r.metadata.labels[label] \in values

\* the checks of the filter, in the order of the claim
FilterChecks(r, type) ==
    << /\ Len(r.metadata.namespace) >= 5
       /\ \A k \in 1..5 : r.metadata.namespace[k] = <<"t", "o", "o", "l", "-">>[k],
       LabelIs(r, "toolforge", {"tool"}),
       LabelIs(r, LabelManagedBy, {"toolforge-jobs-framework"}),
       LabelIs(r, LabelComponent, {"jobs", "cronjobs", "deployments"}),
       type = "MODIFIED",
       "deletion_timestamp" \notin DOMAIN r.metadata,
       r.status.phase \in {"Pending", "Running", "Succeeded", "Failed"},
       /\ LabelEmails \in DOMAIN r.metadata.labels
       /\ r.metadata.labels[LabelEmails] # "none" >>

FilterReasons ==
    << "not interested in in namespace",
       "not related to a toolforge tool",
       "not managed by toolforge-jobs-framework",
       "not created by a known component",
       "not interested in this type",
       "object being deleted",
       "pod phase not relevant",
       "user configuration requested no emails" >>

Failing(r, type) == {k \in 1..8 : ~FilterChecks(r, type)[k]}

FirstFailing(r, type) == CHOOSE k \in Failing(r, type) : \A j \in Failing(r, type) : k <= j

C13_EarlyFilter ==
    /\ \A d \in {x \in WatchOffers : FilterReadable(x.raw_object)} :
          LET res == event_early_filter(d.raw_object, d.type)
              tried == task_watch_pods_try(cache, d.raw_object, d.type)
          IN  /\ res.exc \in {"", "JobEventNotRelevant"}
              /\ res.exc = "" <=> Failing(d.raw_object, d.type) = {}
              /\ res.exc = "JobEventNotRelevant"
                    => /\ res.val = FilterReasons[FirstFailing(d.raw_object, d.type)]
                       /\ tried.exc = "JobEventNotRelevant"
                       /\ tried.val = res.val
                       /\ tried.self = cache
    /\ event_early_filter(FilterTestRecord("ALL"), "MODIFIED").exc = ""
    /\ \A r \in FilterTestRecords \ {FilterTestRecord("ALL")} :
          event_early_filter(r, "MODIFIED").exc = "JobEventNotRelevant"

\* the filter has rejected a delivery while the cache held an event, and the
\* next delivery may fail any one of the eight checks first, or none
C13_Witness ==
    /\ scenario.kind = "filter"
    /\ outcome = "JobEventNotRelevant"
    /\ TotalEvents(cache) = 1
    /\ \A k \in 1..8 : \E d \in WatchOffers :
          /\ Failing(d.raw_object, d.type) # {}
          /\ FirstFailing(d.raw_object, d.type) = k
          /\ k < 8 => Cardinality(Failing(d.raw_object, d.type)) > 1
    /\ \E d \in WatchOffers : Failing(d.raw_object, d.type) = {}

(***************************************************************************)
(* C14: no delivered record terminates the watch stage: whether the early  *)
(* filter or the relevance test rejects it, or classification fails on an  *)
(* absent field (absent labels, absent phase, a present but empty list of  *)
(* container statuses), the record is logged and dropped, the cache stays  *)
(* as it was and the stage goes on with the next record.                   *)
(***************************************************************************)
\* whatever records were delivered so far, the watch task is alive and the
\* last record either was added or was dropped by one of the except clauses
C14_WatchSurvivesEveryRecord ==
    /\ tasks.watch = "running"
    /\ outcome \in {"init", "added", "composed", "idle"} \cup CaughtByWatch

(***************************************************************************)
(* C15: a compose cycle produces exactly one message per tenant aggregate  *)
(* of the cache as it is when the cycle starts, each message covers every  *)
(* workload and every retained event of its tenant, the messages go to the *)
(* tail of the outbound queue in cache order, and the cache is emptied if  *)
(* and only if the cycle produced a message.                               *)
(***************************************************************************)
\* message m reports tenant aggregate userjobs: its address, every job by
\* name and every event of the job, in order
Covers(m, userjobs) ==
    /\ m.address[3] = userjobs.username
    /\ m.subject[2] = Len(userjobs.jobs)
    /\ Len(m.body) = Len(userjobs.jobs)
    /\ \A j \in 1..Len(userjobs.jobs) :
          /\ m.body[j].job = userjobs.jobs[j].name
          /\ m.body[j].eventcount = Len(userjobs.jobs[j].events)
          /\ Len(m.body[j].events) = Len(userjobs.jobs[j].events)
          /\ \A e \in 1..Len(userjobs.jobs[j].events) :
                /\ m.body[j].events[e].podname = userjobs.jobs[j].events[e].podname
                /\ m.body[j].events[e].container_state
                      = userjobs.jobs[j].events[e].container_state
                /\ m.body[j].events[e].phase
                      \in {"pending", "running", "succeeded", "failed"}

CachedEvents(c) ==
    UNION {UNION {{<<u, j, e>> : e \in 1..Len(c[u].jobs[j].events)} :
                     j \in 1..Len(c[u].jobs)} : u \in 1..Len(c)}

\* the events the messages q report
ReportedEvents(q) ==
    UNION {UNION {{<<m, j, e>> : e \in 1..Len(q[m].body[j].events)} :
                     j \in 1..Len(q[m].body)} : m \in 1..Len(q)}

CachedKey(c, i) ==
    <<c[i[1]].username, c[i[1]].jobs[i[2]].name,
      JobEvent_repr(c[i[1]].jobs[i[2]].events[i[3]])>>

ReportedKey(q, i) == <<q[i[1]].address[3], q[i[1]].body[i[2]].job, q[i[1]].body[i[2]].events[i[3]]>>

\* how often event x is held by the cache c or reported by the messages q
Held(x, c, q) ==
    Cardinality({i \in CachedEvents(c) : CachedKey(c, i) = x})
    + Cardinality({i \in ReportedEvents(q) : ReportedKey(q, i) = x})

KnownEvents(c, q) ==
    {CachedKey(c, i) : i \in CachedEvents(c)} \cup {ReportedKey(q, i) : i \in ReportedEvents(q)}

ThisCycle == SubSeq(handed, Len(handed) - burst + 1, Len(handed))

C18_DispatchCycle ==
    [][(/\ scenario.kind = "backlog"
        /\ send_at = "to_thread"
        /\ send_at' = "sleep"
        /\ burst + Len(emailq') > scenario.max) =>
          /\ burst = scenario.max
          /\ handed' = handed
          /\ ThisCycle = SubSeq(enqueued, Len(handed) - burst + 1, Len(handed))
          /\ emailq' = SubSeq(enqueued, Len(handed) + 1, Len(enqueued))
          /\ Len(emailq') = (Len(enqueued) - (Len(handed) - burst)) - scenario.max
          /\ (scenario.max = 10 /\ scenario.n = 25 /\ Len(handed) = 10)
                => Len(emailq') = 15]_vars

\* the first cycle on the queue of 25 is over
C18_Witness ==
    /\ scenario.kind = "backlog"
    /\ scenario.max = 10
    /\ scenario.n = 25
    /\ Len(enqueued) = 25
    /\ send_at = "sleep"
    /\ Len(handed) = 10
    /\ handed = SubSeq(enqueued, 1, 10)
    /\ emailq = SubSeq(enqueued, 11, 25)

(***************************************************************************)
(* C19: between two consecutive interval waits of the dispatch stage at    *)
(* most max-per-cycle messages are handed to the transport, also when      *)
(* compose enqueues while a send is in flight; on reaching the maximum the *)
(* stage waits for the next interval although the queue is not empty, and  *)
(* the counter is reset to zero whenever the queue is found empty.         *)
(***************************************************************************)
C19_RateLimit ==
    [][/\ burst' <= scenario.max
       /\ sent' < scenario.max
       /\ (SendDone /\ burst = scenario.max) =>
             (send_at' = "sleep" /\ emailq' = emailq /\ handed' = handed /\ sent' = 0)
       /\ ((Wake \/ (SendDone /\ burst < scenario.max)) /\ emailq = <<>>) =>
             (send_at' = "sleep" /\ sent' = 0 /\ handed' = handed)]_vars

\* the maximum was reached and the stage waits with a message compose queued
\* while the send was in flight
C19_Witness ==
    /\ scenario.kind = "pipeline"
    /\ send_at = "sleep"
    /\ sent = 0
    /\ Len(handed) = scenario.max
    /\ Len(enqueued) = 2
    /\ emailq # <<>>
    /\ outcome = "composed"
    /\ enqueued[1] # enqueued[2]

(***************************************************************************)
(* C20: outbound messages are dispatched strictly first in, first out: a   *)
(* message appended to the outbound queue before another is handed to the  *)
(* transport before it, across any number of compose and dispatch cycles   *)
(* and whatever the outcome of each send.                                  *)
(***************************************************************************)
C20_DispatchFIFO ==
    /\ Len(handed) <= Len(enqueued)
    /\ handed = SubSeq(enqueued, 1, Len(handed))
    /\ emailq = SubSeq(enqueued, Len(handed) + 1, Len(enqueued))

\* two different messages of two compose cycles were both handed over
C20_Witness ==
    /\ scenario.kind = "pipeline"
    /\ Len(handed) = 2
    /\ handed[1] # handed[2]
    /\ handed = enqueued
    /\ emailq = <<>>

(***************************************************************************)
(* C26: retained events keep arrival order: the events of a workload are   *)
(* in the order add_event accepted them, the workloads of a tenant and the *)
(* tenant aggregates in the order they were first accepted; an accepted    *)
(* add_event appends at the tail and never reorders what is there.         *)
(***************************************************************************)
\* the job now is the job before with events appended at the tail
JobExtends(before, now) ==
    /\ now.name = before.name
    /\ now.type = before.type
    /\ now.emailsconfig = before.emailsconfig
    /\ Len(now.events) >= Len(before.events)
    /\ SubSeq(now.events, 1, Len(before.events)) = before.events

\* every aggregate, workload and event of c is in c2 at the position it has
\* in c
CacheExtends(c, c2) ==
    /\ Len(c2) >= Len(c)
    /\ \A u \in 1..Len(c) :
          /\ c2[u].username = c[u].username
          /\ Len(c2[u].jobs) >= Len(c[u].jobs)
          /\ \A j \in 1..Len(c[u].jobs) : JobExtends(c[u].jobs[j], c2[u].jobs[j])

\* the positions <<u, j>> of the jobs of c
JobPositions(c) == UNION {{<<u, j>> : j \in 1..Len(c[u].jobs)} : u \in 1..Len(c)}

\* the one event c2 has more than c is the last event of its job, and a job or
\* an aggregate c2 has more than c is the last one of its list
AppendedAtTail(c, c2) ==
    \E p \in JobPositions(c2) :
        LET job == c2[p[1]].jobs[p[2]]
            old == IF p[1] <= Len(c) /\ p[2] <= Len(c[p[1]].jobs)
                   THEN c[p[1]].jobs[p[2]].events ELSE <<>>
        IN  /\ Len(job.events) = Len(old) + 1
            /\ (p[1] > Len(c) => (p[1] = Len(c2) /\ Len(c2) = Len(c) + 1))
            /\ (p[1] <= Len(c) => Len(c2) = Len(c))
            /\ (p[1] <= Len(c) /\ p[2] > Len(c[p[1]].jobs))
                  => (p[2] = Len(c2[p[1]].jobs) /\ p[2] = Len(c[p[1]].jobs) + 1)

C26_ArrivalOrder ==
    [][(AddEvent \/ Feed) =>
          /\ CacheExtends(cache, cache')
          /\ outcome' = "added" =>
                /\ TotalEvents(cache') = TotalEvents(cache) + 1
                /\ AppendedAtTail(cache, cache')
          /\ outcome' # "added" => cache' = cache]_vars

\* with two aggregates in the cache, the record just fed is the last of the
\* events of a workload that retained one before
C26_Witness ==
    /\ scenario.kind # "free"
    /\ pc > 0
    /\ outcome = "added"
    /\ Len(cache) >= 2
    /\ \E p \in JobPositions(cache) :
          LET events == cache[p[1]].jobs[p[2]].events
          IN  /\ Len(events) >= 2
              /\ events[Len(events)].original_event = Fed
              /\ events[1].original_event # Fed

(***************************************************************************)
(* C27: the classifier reads only the first container-status entry and     *)
(* derives the run state by precedence: RUNNING if a running sub-state is  *)
(* present, else TERMINATED, else WAITING, else UNKNOWN; a record with     *)
(* zero container statuses yields UNKNOWN with no exit code, timestamps,   *)
(* reason or message; and a classified event has an exit code only if its  *)
(* run state is TERMINATED.                                                *)
(***************************************************************************)
\* the container-status entries of record r
StatusEntries(r) ==
    IF Has(r.status, "containerStatuses") THEN r.status.containerStatuses ELSE <<>>

\* the run state the precedence rule gives the state object st
ByPrecedence(st) ==
    CASE "running" \in DOMAIN st -> "RUNNING"
      [] "terminated" \in DOMAIN st -> "TERMINATED"
      [] "waiting" \in DOMAIN st -> "WAITING"
      [] OTHER -> "UNKNOWN"

NoFurtherFields(e) ==
    /\ e.exit_code = None
    /\ e.start_timestamp = None
    /\ e.stop_timestamp = None
    /\ e.reason = None
    /\ e.message = None

C27_Classifier ==
    classified.applied =>
        /\ classified.result.exc = ""
        /\ LET entries == StatusEntries(classified.event)
               e == classified.result.val
           IN  /\ entries = <<>> => (e.container_state = "UNKNOWN" /\ NoFurtherFields(e))
               /\ entries # <<>> => e.container_state = ByPrecedence(entries[1].state)
               /\ e.exit_code # None => e.container_state = "TERMINATED"

(***************************************************************************)
(* C21: each message popped from the outbound queue is handed to the       *)
(* transport exactly once: when the transport fails for a message (no      *)
(* connection, or a send error) the failure is logged, the message is not  *)
(* put back on the queue and never retried, the dispatch stage does not    *)
(* terminate, and the following queued messages are still dispatched in    *)
(* the same cycle.                                                         *)
(***************************************************************************)
\* the log line of a transport failure
TransportFailed(log) == log \in {"unable to contact SMTP server", "unable to send email"}

\* the messages send_email has ended with, in that order
Ended_emails == [k \in 1..Len(sendlog) |-> sendlog[k].email]

\* send_email ends in this step with a transport failure
FailsNow == Len(sendlog') = Len(sendlog) + 1 /\ TransportFailed(sendlog'[Len(sendlog')].log)

\* the dispatch stage resumes in this step from a send that failed
ResumesAfterFailure ==
    /\ SendEmailsResume
    /\ sendlog # <<>>
    /\ TransportFailed(sendlog[Len(sendlog)].log)

C21_AtMostOnce ==
    /\ [](/\ handed = Ended_emails \o worker
          /\ handed = SubSeq(enqueued, 1, Len(handed))
          /\ emailq = SubSeq(enqueued, Len(handed) + 1, Len(enqueued)))
    /\ [][/\ FailsNow =>
                /\ emailq' = emailq
                /\ handed' = handed
                /\ tasks' = tasks
                /\ Runs("send") => send_at' = "returned"
          /\ ResumesAfterFailure =>
                /\ tasks'.send = "running"
                /\ (emailq # <<>> /\ sent + 1 < IntOf[CFG_DICT.task_send_emails_max]) =>
                      /\ handed' = Append(handed, Head(emailq))
                      /\ emailq' = Tail(emailq)
                      /\ burst' = burst + 1
                      /\ send_at' = "to_thread"]_vars

\* the first message of a cycle failed in the transport and the second one
\* of the same cycle went through
C21_Witness ==
    /\ tasks.send = "running"
    /\ Len(handed) = 2
    /\ burst = 2
    /\ Len(sendlog) = 2
    /\ TransportFailed(sendlog[1].log)
    /\ sendlog[2].log = "sent email"

(***************************************************************************)
(* C22: fail-fast supervision: whenever a supervised stage task (watch,    *)
(* compose, dispatch, reconfiguration) terminates, by error or by normal   *)
(* exit, the supervisor at its next periodic check requests cancellation   *)
(* of every stage that is still running and stops the process; no stage is *)
(* terminated while the process keeps running for ever, and a terminated   *)
(* stage is never started again.                                           *)
(***************************************************************************)
Terminated(t) == tasks[t] # "running"

\* the stages a cancellation request has reached or is about to reach
Stopping == {t \in DOMAIN tasks : Terminated(t) \/ cancelling[t]}

C22_FailFast ==
    /\ [][\A t \in DOMAIN tasks : Terminated(t) => tasks'[t] = tasks[t]]_vars
    /\ [][ErrorCheck =>
            /\ sup'.at # "sleep"
            /\ loop' = "running" => \E t \in DOMAIN tasks : ~Terminated(t) /\ cancelling'[t]]_vars
    /\ [][(loop = "running" /\ loop' = "stopped") => Stopping = DOMAIN tasks]_vars
    /\ [](loop = "stopped" => \A t \in DOMAIN tasks : Terminated(t))
    /\ (\E t \in DOMAIN tasks : Terminated(t)) ~> (loop = "stopped")

\* the reconfiguration stage failed; the three others were cancelled and the
\* loop was stopped
C22_Witness ==
    /\ loop = "stopped"
    /\ tasks = [config |-> "failed", watch |-> "cancelled", compose |-> "cancelled",
                send |-> "cancelled"]
    /\ sup.at = "returned"

(***************************************************************************)
(* C23: when the supervisor detects that the watch stage terminated with   *)
(* an error, the compose and dispatch stages each receive a cancellation   *)
(* request, the process halts, and no message is dispatched to the         *)
(* transport after the halt.                                               *)
(***************************************************************************)
\* the stage t goes from running to cancelled in this step
CancelledNow(t) == tasks[t] = "running" /\ tasks'[t] = "cancelled"

C23_WatchFailureHalts ==
    /\ [][\A t \in {"compose", "send"} : CancelledNow(t) =>
            (cancelling[t] /\ sup.at = "cancel_all_tasks")]_vars
    /\ []((loop = "stopped" /\ tasks.watch = "failed") =>
            \A t \in {"compose", "send"} : tasks[t] \in {"cancelled", "failed"})
    /\ [][\A t \in {"compose", "send"} :
            (tasks.watch = "failed" /\ tasks[t] = "running" /\ tasks'[t] = "failed") =>
                (loop = "running" /\ ~cancelling[t])]_vars
    /\ [][loop = "stopped" =>
            (handed' = handed /\ emailq' = emailq /\ Len(worker') <= Len(worker))]_vars
    /\ (tasks.watch = "failed") ~> (loop = "stopped")

\* the loop was stopped for the failed watch stage with a message left in
\* the queue and one handed over before
C23_Witness ==
    /\ loop = "stopped"
    /\ tasks.watch = "failed"
    /\ tasks.compose = "cancelled"
    /\ tasks.send = "cancelled"
    /\ emailq # <<>>
    /\ handed # <<>>

(***************************************************************************)
(* C24: reconfiguration applies a fetched key/value map key by key: every  *)
(* key of the map that is a known tunable is overwritten with the map's    *)
(* value, every unknown key is ignored and never added, and every tunable  *)
(* absent from the map keeps its previous value; the set of tunable names  *)
(* is the same in every reachable state.                                   *)
(***************************************************************************)
\* the fetched map is applied in this step
Reconfigured == cfg_version' # cfg_version

C24_Reconfigure ==
    /\ [](DOMAIN CFG_DICT = DOMAIN CFG_DEFAULTS)
    /\ [][Reconfigured =>
            /\ fetched'.exc = ""
            /\ \A key \in DOMAIN CFG_DEFAULTS :
                  CFG_DICT'[key] = IF key \in DOMAIN fetched'.data
                                   THEN fetched'.data[key]
                                   ELSE CFG_DICT[key]]_vars
    /\ [][~Reconfigured => CFG_DICT' = CFG_DICT]_vars

\* a second map with a known and an unknown key was applied on top of a
\* first one: the known key has the new value, the key of the first map its
\* value and the others the defaults
C24_Witness ==
    /\ cfg_version = 2
    /\ fetched.exc = ""
    /\ fetched.version = 2
    /\ DOMAIN fetched.data = {"task_send_emails_max", "unknown_key"}
    /\ CFG_DICT.task_send_emails_max = "2"
    /\ CFG_DICT.email_to_prefix = "tools"
    /\ CFG_DICT.send_emails_for_real = "yes"
    /\ CFG_DICT.smtp_server_port = CFG_DEFAULTS.smtp_server_port

(***************************************************************************)
(* C25: when a reconfiguration fetch fails, every tunable keeps the value  *)
(* it had before the fetch, the reconfiguration stage does not terminate,  *)
(* and it retries after the configured poll interval.                      *)
(***************************************************************************)
\* the fetch of this step raised ApiException
FetchFails == ReadConfigmap /\ fetched'.exc = "ApiException"

C25_FetchFailure ==
    [][FetchFails =>
         /\ CFG_DICT' = CFG_DICT
         /\ cfg_version' = cfg_version
         /\ CFG_DICT.task_read_configmap_sleep \in DOMAIN IntOf
         /\ tasks'.config = "running"
         /\ tasks' = tasks
         /\ loop' = "running" /\ ~cancelling'.config]_vars

\* a fetch failed after a map had been applied: the tunables are those of
\* the map and the stage runs
C25_Witness ==
    /\ fetched.exc = "ApiException"
    /\ cfg_version = 1
    /\ CFG_DICT.task_send_emails_max = "1"
    /\ tasks.config = "running"

(***************************************************************************)
(* C28: the watch cursor is seeded once at startup and after each          *)
(* delivered record it equals that record's resource version, whether the  *)
(* record was admitted, rejected by a filter, or dropped for a structural  *)
(* error; every reopened subscription starts at the cursor of the last     *)
(* delivered record, so no delivered record is requested again and the     *)
(* cursor never moves backwards.                                           *)
(***************************************************************************)
\* a record is delivered in this step
DeliveredNow == Len(delivered') = Len(delivered) + 1

C28_Cursor ==
    /\ [][/\ cursor' >= cursor
          /\ cursor' # cursor => (WatchSeed \/ WatchPods)
          /\ WatchSeed => (watch_at = "start" /\ delivered = <<>>)
          /\ watch_at # "start" => watch_at' # "start"
          /\ DeliveredNow => cursor' = delivered'[Len(delivered')]
          /\ (watch_at = "top" /\ delivered # <<>>) =>
                cursor = delivered[Len(delivered)]]_vars
    /\ [](\A i, j \in 1..Len(delivered) : i < j => delivered[i] < delivered[j])

(***************************************************************************)
(* C29: sends are strictly sequential: at every instant at most one        *)
(* message is in flight in the offloaded transport worker, and the         *)
(* dispatch stage pops the next message from the queue only after the      *)
(* result of the previous send has been awaited back.                      *)
(***************************************************************************)
\* the dispatch stage pops a message in this step
PopsNow == Len(handed') = Len(handed) + 1

C29_SequentialSends ==
    /\ [](Len(worker) <= 1)
    /\ [](Len(handed) - Len(sendlog) \in {0, 1})
    /\ [][PopsNow =>
            /\ worker = <<>>
            /\ Len(sendlog) = Len(handed)
            /\ send_at \in {"sleep", "returned"}
            /\ emailq' = Tail(emailq)
            /\ worker' = <<Head(emailq)>>]_vars

\* the second message of a cycle is in its thread, the first one has ended
C29_Witness ==
    /\ Len(worker) = 1
    /\ Len(sendlog) = 1
    /\ burst = 2
    /\ send_at = "to_thread"
    /\ worker[1] = handed[2]
    /\ sendlog[1].email = handed[1]

(***************************************************************************)
(* C30: cancellation is cooperative: a cancellation request takes effect   *)
(* only at the target stage's next suspension point; a dispatch stage      *)
(* cancelled while its send is in the offloaded transport worker does not  *)
(* interrupt that send (the message already popped is still delivered or   *)
(* fails on its own) and dispatch pops no further message afterwards.      *)
(***************************************************************************)
\* task.cancel() is called on stage t in this step
RequestedNow(t) == ~cancelling[t] /\ cancelling'[t]

C30_CooperativeCancel ==
    /\ [][\A t \in DOMAIN tasks :
            /\ RequestedNow(t) => (tasks[t] = "running" /\ tasks' = tasks)
            /\ CancelledNow(t) => (cancelling[t] /\ ~cancelling'[t])]_vars
    /\ [][(RequestedNow("send") \/ CancelledNow("send")) =>
            (worker' = worker /\ sendlog' = sendlog /\ send_at' = send_at)]_vars
    /\ [][(cancelling.send \/ tasks.send = "cancelled") =>
            (handed' = handed /\ emailq' = emailq /\ sent' = sent)]_vars
    /\ [](worker # <<>> => ENABLED SendEmailThread)
    /\ [][(tasks.send = "cancelled" /\ Len(sendlog') > Len(sendlog)) =>
            /\ sendlog'[Len(sendlog')].email = handed[Len(handed)]
            /\ worker' = <<>>
            /\ send_at' = send_at]_vars

\* the dispatch stage was cancelled with a message in the worker and a
\* message in the queue; send_email delivered the first afterwards and the
\* second is still in the queue
C30_Witness ==
    /\ tasks.send = "cancelled"
    /\ send_at = "to_thread"
    /\ worker = <<>>
    /\ Len(handed) = 1
    /\ Len(sendlog) = 1
    /\ sendlog[1].email = handed[1]
    /\ sendlog[1].log = "sent email"
    /\ emailq # <<>>

(***************************************************************************)
(* C31: mutation ownership of the shared state: the cache is changed only  *)
(* by the watch stage (additions) and the compose stage (deletion after    *)
(* drain); the outbound queue is changed only by compose (append at tail)  *)
(* and dispatch (pop at head); the supervisor, the reconfiguration stage   *)
(* and the offloaded transport worker leave both the cache and the queue   *)
(* unchanged in every step.                                                *)
(***************************************************************************)
\* a step of the supervisor
SupervisorStep == ErrorCheck \/ CancelAllTasks \/ TaskCancelled

\* q2 is q with messages appended at its tail
AppendedTo(q, q2) == Len(q2) > Len(q) /\ SubSeq(q2, 1, Len(q)) = q

C31_MutationOwnership ==
    [][/\ cache' # cache =>
             \/ WatchPods /\ CacheExtends(cache, cache') /\ emailq' = emailq
             \/ ComposeEmails /\ cache' = <<>> /\ AppendedTo(emailq, emailq')
       /\ emailq' # emailq =>
             \/ ComposeEmails /\ AppendedTo(emailq, emailq')
             \/ (SendEmails \/ SendEmailsResume) /\ emailq' = Tail(emailq) /\ cache' = cache
       /\ (SupervisorStep \/ ReadConfigmap \/ SendEmailThread) =>
             (cache' = cache /\ emailq' = emailq)]_vars

\* a map was applied and the supervisor has begun to cancel while the cache
\* holds an event and the queue a message
C31_Witness ==
    /\ cache # <<>>
    /\ emailq # <<>>
    /\ cfg_version = 1
    /\ sup.at = "cancel_all_tasks"

(***************************************************************************)
(* C33: message accounting: at every instant the number of messages        *)
(* compose has appended to the outbound queue equals the number dispatch   *)
(* has popped plus the number still queued, none is lost or duplicated     *)
(* inside the queue, and the queue content is always a suffix, in order,   *)
(* of the sequence of all messages ever appended.                          *)
(***************************************************************************)
\* the last n elements of the sequence s
Suffix(s, n) == SubSeq(s, Len(s) - n + 1, Len(s))

C33_MessageAccounting ==
    /\ [](/\ Len(enqueued) = Len(handed) + Len(emailq)
          /\ emailq = Suffix(enqueued, Len(emailq))
          /\ enqueued = handed \o emailq)
    /\ [][/\ Len(enqueued') - Len(enqueued) = Len(emailq') - Len(emailq)
                                               + (Len(handed') - Len(handed))
          /\ Len(enqueued') >= Len(enqueued)
          /\ Len(handed') - Len(handed) \in {0, 1}]_vars

\* three messages were appended over several compose cycles, two of them
\* were popped and one is queued
C33_Witness ==
    /\ Len(enqueued) = 3
    /\ Len(handed) = 2
    /\ Len(emailq) = 1
    /\ emailq[1] = enqueued[3]

(***************************************************************************)
(* C35: every workload that reaches the cache through the watch stage      *)
(* (early filter, then add_event) has kind NORMAL, CRONJOB or CONTINUOUS   *)
(* and policy ONFAILURE, ONFINISH or ALL: no reachable cache holds a       *)
(* workload of kind UNKNOWN or policy NONE; a record whose policy label    *)
(* has an unrecognized value other than "none" passes the early filter,    *)
(* is then rejected by the relevance test and retains nothing.             *)
(***************************************************************************)
RecognizedPolicyLabels == {"none", "onfailure", "onfinish", "all"}

\* the deliveries on offer whose policy label has an unrecognized value
UnrecognizedPolicy ==
    {d \in {x \in WatchOffers : FilterReadable(x.raw_object)} :
        /\ Has(d.raw_object.metadata.labels, LabelEmails)
        /\ d.raw_object.metadata.labels[LabelEmails] \notin RecognizedPolicyLabels}

\* the record r with the policy label "all"
WithPolicyAll(r) == [r EXCEPT !.metadata.labels[LabelEmails] = "all"]

C35_CachedKindAndPolicy ==
    /\ \A job \in JobsOf(cache) :
          /\ job.type \in {"NORMAL", "CRONJOB", "CONTINUOUS"}
          /\ job.emailsconfig \in {"ONFAILURE", "ONFINISH", "ALL"}
    /\ \A d \in UnrecognizedPolicy :
          LET res == event_early_filter(d.raw_object, d.type)
              tried == task_watch_pods_try(cache, d.raw_object, d.type)
          IN  /\ res = event_early_filter(WithPolicyAll(d.raw_object), d.type)
              /\ tried.exc = "JobEventNotRelevant"
              /\ tried.self = cache
              /\ res.exc = "" => tried.val = "job emails config is none"

\* the cache holds a workload, and a record with an unrecognized policy label
\* that passes the early filter is on offer
C35_Witness ==
    /\ scenario.kind = "filter"
    /\ TotalEvents(cache) = 1
    /\ \E d \in UnrecognizedPolicy : event_early_filter(d.raw_object, d.type).exc = ""
    /\ \E d \in WatchOffers : /\ FilterReadable(d.raw_object)
                              /\ KindOf(d.raw_object) = "UNKNOWN"

(***************************************************************************)
(* C36: a fetched configuration map is applied only when its resource      *)
(* version is strictly greater than the version of the last applied map:   *)
(* refetching a map with an equal or lower version changes no tunable, and *)
(* the last-applied version never decreases.                               *)
(***************************************************************************)
\* the fetch of this step returned a map
FetchedNow == ReadConfigmap /\ fetched'.exc = ""

C36_VersionGate ==
    [][/\ cfg_version' >= cfg_version
       /\ FetchedNow =>
             /\ fetched'.version > cfg_version =>
                   (cfg_version' = fetched'.version
                    /\ CFG_DICT' = reconfigure(CFG_DICT, fetched'))
             /\ fetched'.version <= cfg_version =>
                   (cfg_version' = cfg_version /\ CFG_DICT' = CFG_DICT)
       /\ CFG_DICT' # CFG_DICT => (FetchedNow /\ fetched'.version > cfg_version)]_vars

\* version 2 was applied and a map of version 1 with other values was
\* fetched afterwards: the tunables are still those of version 2
C36_Witness ==
    /\ cfg_version = 2
    /\ fetched.exc = ""
    /\ fetched.version = 1
    /\ "task_send_emails_max" \in DOMAIN fetched.data
    /\ CFG_DICT.task_send_emails_max # fetched.data.task_send_emails_max
    /\ tasks.config = "running"

(***************************************************************************)
(* C37: the delivery toggle is read per message at dispatch time, not at   *)
(* compose time: a message popped while the toggle is not "yes" is removed *)
(* from the queue, counted against the per-cycle maximum, and never handed *)
(* to the mail relay later, even if the toggle is switched to "yes"        *)
(* afterwards; the destination address of a message is fixed from the      *)
(* address tunables at compose time and is not changed by later            *)
(* reconfiguration.                                                        *)
(***************************************************************************)
Simulated(log) == log = "not sending email for real"

\* send_email ends in this step
SendEndsNow == Len(sendlog') = Len(sendlog) + 1

\* the dispatch stage resumes in this step from a send that was simulated
ResumesAfterSimulated ==
    /\ SendEmailsResume
    /\ send_at = "returned"
    /\ Simulated(sendlog[Len(sendlog)].log)
    /\ CFG_DICT.task_send_emails_max \in DOMAIN IntOf

\* the address compose_email gives tenant `user` under the tunables cfg
AddressOf(user, cfg) == <<cfg.email_to_prefix, ".", user, "@", cfg.email_to_domain>>

C37_ToggleAtDispatch ==
    /\ [](/\ handed = Ended_emails \o worker
          /\ handed = SubSeq(enqueued, 1, Len(handed)))
    /\ [][/\ SubSeq(sendlog', 1, Len(sendlog)) = sendlog
          /\ SubSeq(enqueued', 1, Len(enqueued)) = enqueued
          /\ SendEndsNow =>
                /\ Simulated(sendlog'[Len(sendlog')].log)
                      <=> CFG_DICT.send_emails_for_real # "yes"
                /\ sendlog'[Len(sendlog')].email = enqueued[Len(sendlog')]
                /\ emailq' = emailq
          /\ ResumesAfterSimulated =>
                IF sent + 1 >= IntOf[CFG_DICT.task_send_emails_max]
                THEN send_at' = "sleep" /\ handed' = handed /\ emailq' = emailq
                ELSE emailq # <<>> => (sent' = sent + 1 /\ burst' = burst + 1)
          /\ \A k \in (Len(enqueued) + 1)..Len(enqueued') :
                enqueued'[k].address = AddressOf(enqueued'[k].address[3], CFG_DICT)]_vars

\* the first message was composed and popped under the defaults and was
\* simulated; the toggle and the prefix were switched afterwards and the
\* second message went to the relay under the new prefix
C37_Witness ==
    /\ Len(sendlog) = 2
    /\ Simulated(sendlog[1].log)
    /\ sendlog[1].email.address[1] = CFG_DEFAULTS.email_to_prefix
    /\ sendlog[2].log = "sent email"
    /\ sendlog[2].email.address[1] = "tools"
    /\ CFG_DICT.send_emails_for_real = "yes"
    /\ CFG_DICT.email_to_prefix = "tools"
    /\ emailq = <<>>
    /\ worker = <<>>

(***************************************************************************)
(* C38: reconfiguration stores any string for a known tunable without      *)
(* validation, and interval and maximum tunables are parsed as integers at *)
(* each use: after a reconfiguration sets the compose interval, the        *)
(* dispatch interval, the dispatch maximum per cycle, the watch timeout or *)
(* the poll interval to a non-integer string, the stage that next reads it *)
(* terminates with an error, and the supervisor then halts the whole       *)
(* process.                                                                *)
(***************************************************************************)
\* the tunable does not convert with int()
Bad(key) == CFG_DICT[key] \notin DOMAIN IntOf

\* the tunables parsed with int() and the stage that reads each
ParsedBy ==
    [task_read_configmap_sleep |-> "config",
     task_watch_pods_timeout |-> "watch",
     task_compose_emails_loop_sleep |-> "compose",
     task_send_emails_loop_sleep |-> "send",
     task_send_emails_max |-> "send"]

\* the dispatch stage reaches an interval sleep in this step
SendSleeps == (SendEmails /\ emailq = <<>>)
              \/ (SendEmailsResume /\ send_at = "returned" /\ ~Bad("task_send_emails_max")
                  /\ (sent + 1 >= IntOf[CFG_DICT.task_send_emails_max] \/ emailq = <<>>))

C38_BadTunableHalts ==
    /\ [][/\ (Reconfigured /\ fetched'.exc = "") =>
                \A key \in DOMAIN ParsedBy \cap DOMAIN fetched'.data :
                   CFG_DICT'[key] = fetched'.data[key]
          /\ ReadConfigmap =>
                (tasks'.config = "failed" <=> CFG_DICT'.task_read_configmap_sleep
                                                \notin DOMAIN IntOf)
          /\ (ComposeEmails /\ Bad("task_compose_emails_loop_sleep")) =>
                tasks'.compose = "failed"
          /\ (SendSleeps /\ Bad("task_send_emails_loop_sleep")) => tasks'.send = "failed"
          /\ (SendEmailsResume /\ send_at = "returned" /\ Bad("task_send_emails_max")) =>
                (tasks'.send = "failed" /\ handed' = handed)
          /\ (WatchWaits /\ watch_at = "top") => ~Bad("task_watch_pods_timeout")
          /\ WatchStreamFails =>
                (Bad("task_watch_pods_timeout") /\ tasks'.watch = "failed")]_vars
    /\ (\E key \in DOMAIN ParsedBy : Bad(key) /\ tasks[ParsedBy[key]] = "failed")
          ~> (loop = "stopped")

\* the maximum per cycle was set to a non-integer, the dispatch stage failed
\* on it after its next send, and the supervisor stopped the loop
C38_Witness ==
    /\ CFG_DICT.task_send_emails_max = "abc"
    /\ tasks.send = "failed"
    /\ Len(sendlog) = 1
    /\ sent = 0
    /\ loop = "stopped"
    /\ tasks.watch = "cancelled"

(***************************************************************************)
(* C32: the watch stage cannot starve the other stages: it yields control  *)
(* after every delivered record and at the top of every reopen cycle, and  *)
(* each subscription ends after the configured timeout even when no        *)
(* cluster event occurs, so under fair scheduling a non-empty outbound     *)
(* queue is eventually served by dispatch and a non-empty cache is         *)
(* eventually drained by compose.                                          *)
(***************************************************************************)
\* a stage has ended or is being cancelled, or the loop was stopped
Down == loop # "running" \/ Stopping # {}

C32_NoStarvation ==
    /\ [][/\ WatchPods => (watch_at = "blocked" /\ watch_at' = "stream")
          /\ (~stream.open /\ stream'.open) => (watch_at = "top" /\ WatchWaits)
          /\ (stream.open /\ ~stream'.open) => watch_at' = "top"
          /\ (watch_at # "blocked" /\ watch_at' = "blocked") =>
                (LoopFree /\ watch_at \in {"top", "stream"})]_vars
    /\ (watch_at = "blocked") ~> (watch_at # "blocked")
    /\ [][(send_at = "sleep" /\ send_at' # "sleep") =>
            (SendEmails /\ handed' = Append(handed, Head(emailq)))]_vars
    /\ (emailq # <<>> /\ send_at = "sleep") ~> (send_at # "sleep" \/ Down)
    /\ (send_at # "sleep") ~> (send_at = "sleep" \/ Down)
    /\ (cache # <<>>) ~> (cache = <<>> \/ Down)

\* the watch stage waits for a record while a message is queued and an event
\* is cached; the queue was served before
C32_Witness ==
    /\ watch_at = "blocked"
    /\ emailq # <<>>
    /\ cache # <<>>
    /\ Len(handed) >= 1
    /\ ~Down

(***************************************************************************)
(* C34: end-to-end liveness: as long as no stage terminates and scheduling *)
(* is fair, every event accepted into the cache is eventually contained in *)
(* a message on the outbound queue (within one compose interval), and      *)
(* every queued message is eventually popped and handed to the transport,  *)
(* even when the queue repeatedly exceeds the per-cycle maximum.           *)
(***************************************************************************)
\* every event of the cache c is listed, under its job, in one of the
\* messages msgs to its tenant
EventsQueued(c, msgs) ==
    \A u \in 1..Len(c) : \A j \in 1..Len(c[u].jobs) : \A e \in 1..Len(c[u].jobs[j].events) :
       \E m \in 1..Len(msgs) : \E k \in 1..Len(msgs[m].body) :
          /\ msgs[m].address[3] = c[u].username
          /\ msgs[m].body[k].job = c[u].jobs[j].name
          /\ \E i \in 1..Len(msgs[m].body[k].events) :
                msgs[m].body[k].events[i] = JobEvent_repr(c[u].jobs[j].events[e])

====
